---- MODULE Spec2Model ----
(***************************************************************************)
(* Model of the QEMU configuration reconciler of proxmox-api-go            *)
(* (package proxmox, config_qemu): ConfigQemu.Create / Update /            *)
(* setAdvanced, ConfigQemu.Validate, ConfigQemu.mapToAPI and the           *)
(* refresh-with-lock loop NewConfigQemuFromApi.                            *)
(*                                                                         *)
(* Calls that leave the package's source shown here (the HTTP client, the  *)
(* disk, cpu, memory, tpm ... sub-entities) are the environment: each call *)
(* either succeeds or fails, and what it answers is drawn from a small set.*)
(***************************************************************************)
EXTENDS Integers, Sequences, FiniteSets, TLC

VARIABLES
    \* ---- one reconcile: ConfigQemu.Create / Update / setAdvanced
    entry,            \* "Create", "Update" or "setAdvanced" (called with a current config of the caller)
    rebootIfNeeded,   \* parameter rebootIfNeeded
    newConfig,        \* the receiver (desired config), a copy owned by the call
    currentConfig,    \* parameter currentConfig (NilConfig on Create)
    vmrNode,          \* vmr.node
    pc,               \* position in Update / setAdvanced
    markedDisks,      \* result of markDiskChanges: how many disks to move / resize, cloud-init removal
    moved,            \* disks moved so far (loop index of the move loop)
    resized,          \* disks resized so far
    itemsToDeleteBeforeUpdate, \* the list sent by the pre-PUT delete
    stopped,          \* local stopped
    rebootRequired,   \* local (named result) rebootRequired
    ret,              \* what the call returned: [reboot, err]
    log,              \* the calls issued to PVE so far, in order (each has returned)
    failedAt,         \* index in log of the first call that failed, 0 if none
    validateErr,      \* result of Validate, "unset" before it ran
    pendingSeen,      \* where PVE reported pending changes: subset of {"before","after"}
    desiredNode,      \* Node of the desired config as the caller handed it in
    currentFrom,      \* where currentConfig comes from: "caller", "fetch" (Update) or "refetch"
    \* ---- refresh-with-lock: NewConfigQemuFromApi
    rpc,              \* position in NewConfigQemuFromApi
    ii,               \* loop counter
    lockPlan,         \* what the k-th GET status/current answers: TRUE = a lock is reported
    reads,            \* GET status/current calls made so far
    configReads,      \* GET config calls made so far
    sleeps,           \* 8-second delays slept so far
    vmConfig,         \* attempt (1-based) in which the held vmConfig was fetched, 0 = none
    vmInfoLock,       \* vmInfo["lock"] != nil of the last status read
    rOut,             \* result of the refresh: [config, err]
    decodedConfig,    \* what mapToStruct built from the held vmConfig
    rConfig,          \* the *ConfigQemu the refresh returned (nil unless it succeeded)
    \* ---- pure functions applied to drawn inputs
    valConfig, valCurrent, valOut,    \* Validate
    valNorm,          \* the validated config as the iso normalisation of mapToAPI leaves it
    diffConfig, diffCurrent, diffSub, diffOut, \* mapToAPI
    \* ---- the device codec applied to drawn inputs
    family,           \* "net", "usb", "hostpci", "vga", "rng0", "efidisk0" or "disk"
    encVmID,          \* c.VmID of the config being encoded
    devID,            \* key of the device in its QemuDevices map
    dev,              \* the device map (QemuDevice) as the caller handed it in
    devAfter,         \* the same map as the encoder left it
    out1,             \* result of encoding dev
    out2,             \* result of encoding the same dev once more
    back,             \* what mapToStruct decodes from out1 (net family)
    cpc,              \* position: "encode", "encoded", "again", "decoded", "idle"
    \* ---- the stand-alone validators applied to drawn inputs
    vkind,            \* which one runs: "machine" or "nicid"
    machine,          \* c.Machine, a string as the tuple of its characters
    machineOut,       \* result of CreateQemuMachineParam: [err, params]
    ifaceId,            \* a QemuNetworkInterfaceID (uint8)
    ifaceIdOut,         \* result of QemuNetworkInterfaceID.Validate
    \* ---- WaitForShutdown
    wpc,              \* position in WaitForShutdown
    wii,              \* loop counter ii
    polls,            \* GetVmState calls made so far
    lastPoll,         \* what the last poll answered: "error", "stopped", "running"
    pollFailed,       \* some poll so far failed with an error
    wOut,             \* what WaitForShutdown returned
    \* ---- decoding of the device keys of an API response (mapToStruct)
    dkind,            \* "net", "usb" or "hostpci"
    dIndices,         \* the indices N of the keys <kind>N in the response
    dOut,             \* the QemuDevices map built: key -> device map
    dpc               \* position: "decode", "decoded", "idle"

reconcileVars == <<entry, rebootIfNeeded, newConfig, currentConfig, vmrNode, pc,
                   markedDisks, moved, resized, itemsToDeleteBeforeUpdate, stopped,
                   rebootRequired, ret, log, failedAt, validateErr, pendingSeen,
                   desiredNode, currentFrom>>
refreshVars == <<rpc, ii, lockPlan, reads, configReads, sleeps, vmConfig, vmInfoLock, rOut,
                 decodedConfig, rConfig>>
validateVars == <<valConfig, valCurrent, valOut, valNorm>>
diffVars == <<diffConfig, diffCurrent, diffSub, diffOut>>
codecVars == <<family, encVmID, devID, dev, devAfter, out1, out2, back, cpc>>
checkVars == <<vkind, machine, machineOut, ifaceId, ifaceIdOut>>
waitVars == <<wpc, wii, polls, lastPoll, pollFailed, wOut>>
decodeVars == <<dkind, dIndices, dOut, dpc>>
vars == <<reconcileVars, refreshVars, validateVars, diffVars, codecVars, checkVars, waitVars,
         decodeVars>>

----------------------------------------------------------------------------
(* Values *)

NIL == "<nil>"          \* a nil pointer / absent reference
NoErr == "nil"          \* a nil error

Range(s) == {s[i] : i \in DOMAIN s}
Last(s) == s[Len(s)]
EmptyMap == <<>>        \* an empty Go map

Nodes == {"pve1", "pve2"}

\* Bounds of the model (not program constants).
MaxMove == 2            \* most disks markDiskChanges marks for a move
MaxResize == 1          \* most disks markDiskChanges marks for a resize
MaxReads == 4           \* length of the planned answers of GET status/current

\* Error strings of the package.
ConfigQemu_Error_UnableToUpdateWithoutReboot == "unable to update vm without rebooting"
ConfigQemu_Error_CpuRequired == "cpu is required during creation"
ConfigQemu_Error_MemoryRequired == "memory is required during creation"
Error_VmLocked == "vm locked, could not obtain config"

\* The disk tree, as far as the reconciler itself looks into it: whether it is
\* nil, what ide slot 2 holds, and whether Disks.Validate accepts it.
NoDisks == [isNil |-> TRUE, ide2 |-> {}, valid |-> TRUE]
SomeDisks == [isNil |-> FALSE, ide2 |-> {}, valid |-> TRUE]
BadDisks == [isNil |-> FALSE, ide2 |-> {}, valid |-> FALSE]

\* What ide slot 2 (Disks.Ide.Disk_2) can hold: the references Disk, CdRom and
\* CloudInit of QemuIdeStorage that are set. Disks.Validate is outside this
\* file; it rejects a slot with more than one of them set.
SlotKinds == {"disk", "cdrom", "cloudinit"}
DisksWithIde2(kinds) == [isNil |-> FALSE, ide2 |-> kinds, valid |-> Cardinality(kinds) <= 1]

\* A device map field (QemuDevice / QemuDevices): a nil map or a map with
\* entries; the zero value of a map is nil, QemuDevices{} is empty and not nil.
NilDevices == [isNil |-> TRUE, entries |-> <<>>]
NoDevices == [isNil |-> FALSE, entries |-> <<>>]
DeviceFields == {"EFIDisk", "RNGDrive", "QemuDisks", "QemuNetworks", "QemuPCIDevices",
                 "QemuUnusedDisks", "QemuUsbs", "QemuVga"}

\* ConfigQemu{}: the zero value of the struct.
ZeroConfig ==
    [isNil |-> FALSE,
     VmID |-> 0, Node |-> "", Name |-> "", Args |-> "", Bios |-> "", Boot |-> "",
     Description |-> NIL, Hookscript |-> "", Hotplug |-> "", QemuKVM |-> NIL,
     Machine |-> "", Onboot |-> NIL, Protection |-> NIL, QemuOs |-> "",
     Scsihw |-> "", Startup |-> "", Tablet |-> NIL, Smbios1 |-> "", Tags |-> NIL,
     Agent |-> NIL, CPU |-> NIL, CloudInit |-> NIL, Memory |-> NIL, TPM |-> NIL,
     Serials |-> NIL, Pool |-> NIL, Iso |-> NIL, Disks |-> NoDisks,
     EFIDisk |-> NilDevices, RNGDrive |-> NilDevices, QemuDisks |-> NilDevices,
     QemuNetworks |-> NilDevices, QemuPCIDevices |-> NilDevices,
     QemuUnusedDisks |-> NilDevices, QemuUsbs |-> NilDevices, QemuVga |-> NilDevices,
     HaState |-> "", HaGroup |-> ""]

\* A nil *ConfigQemu (the currentConfig of Create).
NilConfig == [ZeroConfig EXCEPT !.isNil = TRUE]

\* (*ConfigQemu).defaults
defaults_overwritesOnboot(config) ==
    IF config.isNil THEN config
    ELSE [config EXCEPT
            !.Boot = IF @ = "" THEN "cdn" ELSE @,
            !.Bios = IF @ = "" THEN "seabios" ELSE @,
            !.RNGDrive = IF @.isNil THEN NoDevices ELSE @,
            !.EFIDisk = IF @.isNil THEN NoDevices ELSE @,
            !.Onboot = "true",
            !.Hotplug = IF @ = "" THEN "network,disk,usb" ELSE @,
            !.Protection = IF @ = NIL THEN "false" ELSE @,
            !.QemuDisks = IF @.isNil THEN NoDevices ELSE @,
            !.QemuKVM = IF @ = NIL THEN "true" ELSE @,
            !.QemuNetworks = IF @.isNil THEN NoDevices ELSE @,
            !.QemuOs = IF @ = "" THEN "other" ELSE @,
            !.QemuPCIDevices = IF @.isNil THEN NoDevices ELSE @,
            !.QemuUnusedDisks = IF @.isNil THEN NoDevices ELSE @,
            !.QemuUsbs = IF @.isNil THEN NoDevices ELSE @,
            !.QemuVga = IF @.isNil THEN NoDevices ELSE @,
            !.Scsihw = IF @ = "" THEN "lsi" ELSE @,
            !.Tablet = IF @ = NIL THEN "true" ELSE @]

defaults(config) ==
    IF config.isNil THEN config
    ELSE [config EXCEPT
            !.Boot = IF @ = "" THEN "cdn" ELSE @,
            !.Bios = IF @ = "" THEN "seabios" ELSE @,
            !.RNGDrive = IF @.isNil THEN NoDevices ELSE @,
            !.EFIDisk = IF @.isNil THEN NoDevices ELSE @,
            !.Onboot = IF @ = NIL THEN "true" ELSE @,
            !.Hotplug = IF @ = "" THEN "network,disk,usb" ELSE @,
            !.Protection = IF @ = NIL THEN "false" ELSE @,
            !.QemuDisks = IF @.isNil THEN NoDevices ELSE @,
            !.QemuKVM = IF @ = NIL THEN "true" ELSE @,
            !.QemuNetworks = IF @.isNil THEN NoDevices ELSE @,
            !.QemuOs = IF @ = "" THEN "other" ELSE @,
            !.QemuPCIDevices = IF @.isNil THEN NoDevices ELSE @,
            !.QemuUnusedDisks = IF @.isNil THEN NoDevices ELSE @,
            !.QemuUsbs = IF @.isNil THEN NoDevices ELSE @,
            !.QemuVga = IF @.isNil THEN NoDevices ELSE @,
            !.Scsihw = IF @ = "" THEN "lsi" ELSE @,
            !.Tablet = IF @ = NIL THEN "true" ELSE @]

----------------------------------------------------------------------------
(* ConfigQemu.Validate *)

\* The validators of the sub-entities are outside this file: a sub-entity
\* value "bad" is one its validator rejects, every other value one it accepts.
SubValid(v) == v # "bad"
SubError(field) == "invalid " \o field

Validate_memoryFirst(config, current) ==
    LET sharedErr ==
            IF config.Agent # NIL /\ ~SubValid(config.Agent) THEN SubError("agent")
            ELSE IF config.CloudInit # NIL /\ ~SubValid(config.CloudInit) THEN SubError("cloudinit")
            ELSE IF ~config.Disks.isNil /\ ~config.Disks.valid THEN SubError("disks")
            ELSE IF config.Pool # NIL /\ config.Pool # "" /\ ~SubValid(config.Pool) THEN SubError("pool")
            ELSE IF config.Serials # NIL /\ ~SubValid(config.Serials) THEN SubError("serials")
            ELSE IF config.Tags # NIL /\ ~SubValid(config.Tags) THEN SubError("tags")
            ELSE NoErr
    IN IF current.isNil
       THEN IF config.Memory = NIL THEN ConfigQemu_Error_MemoryRequired
            ELSE IF ~SubValid(config.Memory) THEN SubError("memory")
            ELSE IF config.CPU = NIL THEN ConfigQemu_Error_CpuRequired
            ELSE IF ~SubValid(config.CPU) THEN SubError("cpu")
            ELSE IF config.TPM # NIL /\ ~SubValid(config.TPM) THEN SubError("tpm")
            ELSE sharedErr
       ELSE IF config.CPU # NIL /\ ~SubValid(config.CPU) THEN SubError("cpu")
            ELSE IF config.Memory # NIL /\ ~SubValid(config.Memory) THEN SubError("memory")
            ELSE IF config.TPM # NIL /\ ~SubValid(config.TPM) THEN SubError("tpm")
            ELSE sharedErr

Validate(config, current) ==
    LET sharedErr ==
            IF config.Agent # NIL /\ ~SubValid(config.Agent) THEN SubError("agent")
            ELSE IF config.CloudInit # NIL /\ ~SubValid(config.CloudInit) THEN SubError("cloudinit")
            ELSE IF ~config.Disks.isNil /\ ~config.Disks.valid THEN SubError("disks")
            ELSE IF config.Pool # NIL /\ config.Pool # "" /\ ~SubValid(config.Pool) THEN SubError("pool")
            ELSE IF config.Serials # NIL /\ ~SubValid(config.Serials) THEN SubError("serials")
            ELSE IF config.Tags # NIL /\ ~SubValid(config.Tags) THEN SubError("tags")
            ELSE NoErr
    IN IF current.isNil
       THEN \* Create
            IF config.CPU = NIL THEN ConfigQemu_Error_CpuRequired
            ELSE IF ~SubValid(config.CPU) THEN SubError("cpu")
            ELSE IF config.Memory = NIL THEN ConfigQemu_Error_MemoryRequired
            ELSE IF ~SubValid(config.Memory) THEN SubError("memory")
            ELSE IF config.TPM # NIL /\ ~SubValid(config.TPM) THEN SubError("tpm")
            ELSE sharedErr
       ELSE \* Update
            IF config.CPU # NIL /\ ~SubValid(config.CPU) THEN SubError("cpu")
            ELSE IF config.Memory # NIL /\ ~SubValid(config.Memory) THEN SubError("memory")
            ELSE IF config.TPM # NIL /\ ~SubValid(config.TPM) THEN SubError("tpm")
            ELSE sharedErr

----------------------------------------------------------------------------
(* ConfigQemu.mapToAPI *)

\* params[key] = value on a Go map: a later write replaces an earlier one.
Put(params, key, value) == (key :> value) @@ params
PutIf(cond, params, key, value) == IF cond THEN Put(params, key, value) ELSE params
PutAll(params, more) == more @@ params

\* What the mapToApi of one sub-entity (tpm, disks, cpu, cloud-init, memory,
\* serials) did: the parameters it wrote and the items it asks to delete.
\* These functions are outside this file; their results are inputs here.
NoSubOut == [params |-> EmptyMap, delete |-> <<>>]
NoSub == [Agent |-> "", Tags |-> "", TPM |-> NoSubOut, Disks |-> NoSubOut, CPU |-> NoSubOut,
          CloudInit |-> NoSubOut, Memory |-> NoSubOut, Serials |-> NoSubOut]

\* The iso shortcut: a CD-ROM is put into ide slot 2 unless the slot has one.
NormalizeIso(config) ==
    IF config.Iso = NIL THEN config
    ELSE [config EXCEPT !.Disks = [isNil |-> FALSE,
                                   ide2 |-> config.Disks.ide2 \cup {"cdrom"},
                                   valid |-> config.Disks.valid]]

\* The scalar fields: each is written when the desired value is not the zero
\* value (description: when the reference is set and either non-empty or
\* current has one). The current value is not compared.
ScalarParams_diffing(config, current, sub) ==
    LET p01 == PutIf(config.VmID # 0 /\ config.VmID # current.VmID, EmptyMap, "vmid", config.VmID)
        p02 == PutIf(config.Args # "" /\ config.Args # current.Args, p01, "args", config.Args)
        p03 == PutIf(config.Agent # NIL, p02, "agent", sub.Agent)
        p04 == PutIf(config.Bios # "" /\ config.Bios # current.Bios, p03, "bios", config.Bios)
        p05 == PutIf(config.Boot # "" /\ config.Boot # current.Boot, p04, "boot", config.Boot)
        p06 == PutIf(config.Description # NIL /\ config.Description # current.Description
                        /\ (config.Description # "" \/ current.Description # NIL),
                     p05, "description", config.Description)
        p07 == PutIf(config.Hookscript # "" /\ config.Hookscript # current.Hookscript, p06, "hookscript", config.Hookscript)
        p08 == PutIf(config.Hotplug # "" /\ config.Hotplug # current.Hotplug, p07, "hotplug", config.Hotplug)
        p09 == PutIf(config.QemuKVM # NIL /\ config.QemuKVM # current.QemuKVM, p08, "kvm", config.QemuKVM)
        p10 == PutIf(config.Machine # "" /\ config.Machine # current.Machine, p09, "machine", config.Machine)
        p11 == PutIf(config.Name # "" /\ config.Name # current.Name, p10, "name", config.Name)
        p12 == PutIf(config.Onboot # NIL /\ config.Onboot # current.Onboot, p11, "onboot", config.Onboot)
        p13 == PutIf(config.Protection # NIL /\ config.Protection # current.Protection, p12, "protection", config.Protection)
        p14 == PutIf(config.QemuOs # "" /\ config.QemuOs # current.QemuOs, p13, "ostype", config.QemuOs)
        p15 == PutIf(config.Scsihw # "" /\ config.Scsihw # current.Scsihw, p14, "scsihw", config.Scsihw)
        p16 == PutIf(config.Startup # "" /\ config.Startup # current.Startup, p15, "startup", config.Startup)
        p17 == PutIf(config.Tablet # NIL /\ config.Tablet # current.Tablet, p16, "tablet", config.Tablet)
        p18 == PutIf(config.Tags # NIL, p17, "tags", sub.Tags)
        p19 == PutIf(config.Smbios1 # "" /\ config.Smbios1 # current.Smbios1, p18, "smbios1", config.Smbios1)
    IN p19

ScalarParams(config, current, sub) ==
    LET p01 == PutIf(config.VmID # 0, EmptyMap, "vmid", config.VmID)
        p02 == PutIf(config.Args # "", p01, "args", config.Args)
        p03 == PutIf(config.Agent # NIL, p02, "agent", sub.Agent)
        p04 == PutIf(config.Bios # "", p03, "bios", config.Bios)
        p05 == PutIf(config.Boot # "", p04, "boot", config.Boot)
        p06 == PutIf(config.Description # NIL
                        /\ (config.Description # "" \/ current.Description # NIL),
                     p05, "description", config.Description)
        p07 == PutIf(config.Hookscript # "", p06, "hookscript", config.Hookscript)
        p08 == PutIf(config.Hotplug # "", p07, "hotplug", config.Hotplug)
        p09 == PutIf(config.QemuKVM # NIL, p08, "kvm", config.QemuKVM)
        p10 == PutIf(config.Machine # "", p09, "machine", config.Machine)
        p11 == PutIf(config.Name # "", p10, "name", config.Name)
        p12 == PutIf(config.Onboot # NIL, p11, "onboot", config.Onboot)
        p13 == PutIf(config.Protection # NIL, p12, "protection", config.Protection)
        p14 == PutIf(config.QemuOs # "", p13, "ostype", config.QemuOs)
        p15 == PutIf(config.Scsihw # "", p14, "scsihw", config.Scsihw)
        p16 == PutIf(config.Startup # "", p15, "startup", config.Startup)
        p17 == PutIf(config.Tablet # NIL, p16, "tablet", config.Tablet)
        p18 == PutIf(config.Tags # NIL, p17, "tags", sub.Tags)
        p19 == PutIf(config.Smbios1 # "", p18, "smbios1", config.Smbios1)
    IN p19

\* The calls into the sub-entities, in the order of the code, as the list of
\* results that apply: a sub-entity is asked only when the desired reference
\* is set; the delete list of the disks is dropped when current has no disks.
SubCalls(config, current, sub) ==
    LET c == NormalizeIso(config)
        one(cond, out) == IF cond THEN <<out>> ELSE <<>>
    IN one(c.TPM # NIL, sub.TPM)
       \o one(~c.Disks.isNil,
              IF current.Disks.isNil THEN [sub.Disks EXCEPT !.delete = <<>>] ELSE sub.Disks)
       \o one(c.CPU # NIL, sub.CPU)
       \o one(c.CloudInit # NIL, sub.CloudInit)
       \o one(c.Memory # NIL, sub.Memory)
       \o one(c.Serials # NIL, sub.Serials)

RECURSIVE SubParams(_, _)
SubParams(params, calls) ==
    IF calls = <<>> THEN params
    ELSE SubParams(PutAll(params, Head(calls).params), Tail(calls))

RECURSIVE SubDeletes(_)
SubDeletes(calls) ==
    IF calls = <<>> THEN <<>> ELSE Head(calls).delete \o SubDeletes(Tail(calls))

\* The encoders of the device maps (efidisk0, rng0, netN, vga, usbN, hostpciN)
\* range over the entries of the map: a nil or empty map writes nothing.
DeviceParams(config, params) ==
    IF /\ config.EFIDisk.entries = <<>> /\ config.RNGDrive.entries = <<>>
       /\ config.QemuNetworks.entries = <<>> /\ config.QemuVga.entries = <<>>
       /\ config.QemuUsbs.entries = <<>> /\ config.QemuPCIDevices.entries = <<>>
    THEN params
    ELSE Put(params, "devices", "unmodelled")

\* The named result rebootRequired of mapToAPI: no statement assigns it.
mapToAPI_rebootOnChange(config, current) ==
    \/ config.Bios # "" /\ config.Bios # current.Bios
    \/ config.Machine # "" /\ config.Machine # current.Machine
    \/ config.Args # "" /\ config.Args # current.Args
    \/ config.Memory # NIL /\ config.Memory # current.Memory

mapToAPI_rebootRequired(config, current) == FALSE

mapToAPI(config, current, sub) ==
    LET calls == SubCalls(config, current, sub)
        p1 == ScalarParams(config, current, sub)
        p2 == SubParams(p1, calls)
        p3 == DeviceParams(config, p2)
        itemsToDelete == SubDeletes(calls)
    IN [rebootRequired |-> mapToAPI_rebootRequired(config, current),
        params |-> PutIf(itemsToDelete # <<>>, p3, "delete", itemsToDelete),
        err |-> NoErr]

----------------------------------------------------------------------------
(* One reconcile: ConfigQemu.Create, ConfigQemu.Update, ConfigQemu.setAdvanced *)

VmId == 100     \* vmr.vmId of the guest being reconciled

\* The calls that change something on PVE; the others only read.
MutatingCalls == {"MoveDisk", "ResizeDisk", "MoveTpm", "PutDelete", "GuestShutdown",
                  "MigrateNode", "PutWithTask", "CreateQemuVm", "ResizeNewDisk",
                  "SetPool", "AddToPool", "GuestStart", "GuestReboot", "UpdateVMHA"}
\* The side-operations of an Update, which the main PUT cannot express.
SideOperations == {"MoveDisk", "ResizeDisk", "MoveTpm", "PutDelete", "MigrateNode"}

ErrorOf(call) == call \o " failed"
NoRet == [reboot |-> FALSE, err |-> "not returned"]

\* The statements of setAdvanced in program order: the Update branch and the
\* Create branch. A step that does not return passes control to the next one.
UpdateSteps_putBeforeMigrate ==
    <<"setVmr", "version", "validate", "markDisks", "move", "resize", "tpm", "prePut",
      "pendingBefore", "gate", "refetch", "mainPut", "migrate", "pendingAfter",
      "resizeNew", "setPool", "startOrReboot", "ha", "done">>

UpdateSteps ==
    <<"setVmr", "version", "validate", "markDisks", "move", "resize", "tpm", "prePut",
      "pendingBefore", "gate", "refetch", "migrate", "mainPut", "pendingAfter",
      "resizeNew", "setPool", "startOrReboot", "ha", "done">>

CreateSteps_poolBeforeResize ==
    <<"setVmr", "version", "validate", "create", "addPool", "resizeNew",
      "insertPermission", "ha", "done">>

CreateSteps ==
    <<"setVmr", "version", "validate", "create", "resizeNew", "addPool",
      "insertPermission", "ha", "done">>

After(steps, p) == steps[(CHOOSE i \in DOMAIN steps : steps[i] = p) + 1]
NextPc(p) == IF currentConfig.isNil THEN After(CreateSteps, p) ELSE After(UpdateSteps, p)

\* What a refresh (NewConfigQemuFromApi) can hand back for a guest addressed
\* through vmr: decoded with defaults, Node and VmID taken from vmr.
FetchedConfigs(node) ==
    {defaults([ZeroConfig EXCEPT !.VmID = VmId, !.Node = node, !.Name = "vm1", !.Pool = "",
                                 !.CPU = "host", !.Memory = "2048", !.TPM = t, !.Disks = d])
        : t \in {NIL, "v2.0"}, d \in {NoDisks, SomeDisks}}

\* The desired configs a caller hands in: for the node the guest is on, and
\* some that name the other node.
DesiredConfigs ==
    {[ZeroConfig EXCEPT !.Name = "vm1", !.Node = "pve1", !.CPU = c, !.Memory = m, !.TPM = t,
                        !.Disks = d, !.Pool = p]
        : c \in {NIL, "host", "bad"}, m \in {NIL, "2048", "4096"},
          t \in {NIL, "v2.0"}, d \in {NoDisks, SomeDisks}, p \in {NIL, "", "pool1"}}
    \cup
    {[ZeroConfig EXCEPT !.Name = "vm1", !.Node = "pve2", !.CPU = "host", !.Memory = m,
                        !.TPM = t, !.Disks = d]
        : m \in {"2048", "4096"}, t \in {NIL, "v2.0"}, d \in {NoDisks, SomeDisks}}

NoMarks == [Move |-> 0, Resize |-> 0, CloudInit |-> FALSE]

InitReconcile ==
    /\ entry \in {"Create", "Update", "setAdvanced"}
    /\ rebootIfNeeded \in (IF entry = "Create" THEN {FALSE} ELSE BOOLEAN)
    /\ newConfig \in DesiredConfigs
    /\ vmrNode = "pve1"
    /\ currentConfig \in (IF entry = "setAdvanced"
                          THEN UNION {FetchedConfigs(n) : n \in Nodes}
                          ELSE {NilConfig})
    /\ pc = IF entry = "Update" THEN "fetch" ELSE "setVmr"
    /\ markedDisks = NoMarks
    /\ moved = 0
    /\ resized = 0
    /\ itemsToDeleteBeforeUpdate = <<>>
    /\ stopped = FALSE
    /\ rebootRequired = FALSE
    /\ ret = NoRet
    /\ log = <<>>
    /\ failedAt = 0
    /\ validateErr = "unset"
    /\ pendingSeen = {}
    /\ desiredNode = newConfig.Node
    /\ currentFrom = IF entry = "setAdvanced" THEN "caller" ELSE "none"

IdleReconcile ==
    /\ entry = "none" /\ rebootIfNeeded = FALSE /\ newConfig = ZeroConfig
    /\ currentConfig = NilConfig /\ vmrNode = "pve1" /\ pc = "idle"
    /\ markedDisks = NoMarks /\ moved = 0 /\ resized = 0
    /\ itemsToDeleteBeforeUpdate = <<>> /\ stopped = FALSE /\ rebootRequired = FALSE
    /\ ret = NoRet /\ log = <<>> /\ failedAt = 0 /\ validateErr = "unset"
    /\ pendingSeen = {} /\ desiredNode = "" /\ currentFrom = "none"

\* A call to PVE that has returned: ok or with an error.
Call(name, ok) ==
    /\ log' = Append(log, name)
    /\ failedAt' = IF ~ok /\ failedAt = 0 THEN Len(log) + 1 ELSE failedAt
NoCall == UNCHANGED <<log, failedAt>>

\* return rb, e
Return(rb, e) ==
    /\ pc' = "done"
    /\ ret' = [reboot |-> rb, err |-> e]
Goto(p) ==
    /\ pc' = p
    /\ UNCHANGED ret

inputVars == <<entry, rebootIfNeeded, desiredNode>>
diskVars == <<markedDisks, moved, resized>>
otherVars == <<refreshVars, validateVars, diffVars, codecVars, checkVars, waitVars, decodeVars>>

\* Update: currentConfig, err := NewConfigQemuFromApi(vmr, client)
UpdateFetch ==
    /\ pc = "fetch"
    /\ \E outcome \in {"ok", "error", "fatal"} :
        /\ Call("GetConfig", outcome = "ok")
        /\ CASE outcome = "ok" ->
                  /\ \E c \in FetchedConfigs(vmrNode) : currentConfig' = c
                  /\ currentFrom' = "fetch"
                  /\ Goto("setVmr")
             [] outcome = "error" ->
                  /\ Return(FALSE, ErrorOf("GetConfig"))
                  /\ UNCHANGED <<currentConfig, currentFrom>>
             [] outcome = "fatal" ->   \* log.Fatal inside the refresh: the process exits
                  /\ Goto("exited")
                  /\ UNCHANGED <<currentConfig, currentFrom>>
    /\ UNCHANGED <<inputVars, newConfig, vmrNode, diskVars, itemsToDeleteBeforeUpdate,
                   stopped, rebootRequired, validateErr, pendingSeen, otherVars>>

\* newConfig.setVmr(vmr): the vmid and the node of the desired config are
\* taken from vmr (vmr is not nil in the calls modelled).
SetVmr ==
    /\ pc = "setVmr"
    /\ newConfig' = [newConfig EXCEPT !.VmID = VmId, !.Node = vmrNode]
    /\ Goto(NextPc("setVmr"))
    /\ NoCall
    /\ UNCHANGED <<inputVars, currentFrom, currentConfig, vmrNode, diskVars, itemsToDeleteBeforeUpdate,
                   stopped, rebootRequired, validateErr, pendingSeen, otherVars>>

\* version, err = client.Version()
GetVersion ==
    /\ pc = "version"
    /\ \E ok \in BOOLEAN :
        /\ Call("Version", ok)
        /\ IF ok THEN Goto(NextPc("version")) ELSE Return(rebootRequired, ErrorOf("Version"))
    /\ UNCHANGED <<inputVars, currentFrom, newConfig, currentConfig, vmrNode, diskVars,
                   itemsToDeleteBeforeUpdate, stopped, rebootRequired, validateErr,
                   pendingSeen, otherVars>>

\* err = newConfig.Validate(currentConfig, version)
DoValidate_continues ==
    /\ pc = "validate"
    /\ validateErr' = Validate(newConfig, currentConfig)
    /\ Goto(NextPc("validate"))
    /\ NoCall
    /\ UNCHANGED <<inputVars, currentFrom, newConfig, currentConfig, vmrNode, diskVars,
                   itemsToDeleteBeforeUpdate, stopped, rebootRequired, pendingSeen, otherVars>>

DoValidate ==
    /\ pc = "validate"
    /\ validateErr' = Validate(newConfig, currentConfig)
    /\ IF validateErr' # NoErr
       THEN Return(rebootRequired, validateErr')
       ELSE Goto(NextPc("validate"))
    /\ NoCall
    /\ UNCHANGED <<inputVars, currentFrom, newConfig, currentConfig, vmrNode, diskVars,
                   itemsToDeleteBeforeUpdate, stopped, rebootRequired, pendingSeen, otherVars>>

\* markedDisks = *newConfig.Disks.markDiskChanges(*currentConfig.Disks), when
\* both disk trees are set; what it marks is an input (the function is outside
\* this file).
MarkDisks ==
    /\ pc = "markDisks"
    /\ IF ~newConfig.Disks.isNil /\ ~currentConfig.Disks.isNil
       THEN /\ \E mv \in 0..MaxMove, rs \in 0..MaxResize, ci \in BOOLEAN :
                 markedDisks' = [Move |-> mv, Resize |-> rs, CloudInit |-> ci]
            /\ Goto(NextPc("markDisks"))
       ELSE /\ UNCHANGED markedDisks
            /\ Goto("tpm")
    /\ NoCall
    /\ UNCHANGED <<inputVars, currentFrom, newConfig, currentConfig, vmrNode, moved, resized,
                   itemsToDeleteBeforeUpdate, stopped, rebootRequired, validateErr,
                   pendingSeen, otherVars>>

\* for _, e := range markedDisks.Move { e.move(true, vmr, client) }
MoveDisks ==
    /\ pc = "move"
    /\ IF moved < markedDisks.Move
       THEN \E ok \in BOOLEAN :
              /\ Call("MoveDisk", ok)
              /\ moved' = moved + 1
              /\ IF ok THEN Goto("move") ELSE Return(rebootRequired, ErrorOf("MoveDisk"))
       ELSE /\ NoCall
            /\ UNCHANGED moved
            /\ Goto(NextPc("move"))
    /\ UNCHANGED <<inputVars, currentFrom, newConfig, currentConfig, vmrNode, markedDisks, resized,
                   itemsToDeleteBeforeUpdate, stopped, rebootRequired, validateErr,
                   pendingSeen, otherVars>>

\* resizeDisks(vmr, client, markedDisks.Resize), one resize call per marked
\* disk, then itemsToDeleteBeforeUpdate = newConfig.Disks.cloudInitRemove(...)
ResizeDisks ==
    /\ pc = "resize"
    /\ IF resized < markedDisks.Resize
       THEN /\ \E ok \in BOOLEAN :
                /\ Call("ResizeDisk", ok)
                /\ IF ok THEN Goto("resize") ELSE Return(FALSE, ErrorOf("ResizeDisk"))
            /\ resized' = resized + 1
            /\ UNCHANGED itemsToDeleteBeforeUpdate
       ELSE /\ NoCall
            /\ UNCHANGED resized
            /\ itemsToDeleteBeforeUpdate' =
                   IF markedDisks.CloudInit THEN <<"cloudinit">> ELSE <<>>
            /\ Goto(NextPc("resize"))
    /\ UNCHANGED <<inputVars, currentFrom, newConfig, currentConfig, vmrNode, markedDisks, moved,
                   stopped, rebootRequired, validateErr, pendingSeen, otherVars>>

\* delete, disk := newConfig.TPM.markChanges(*currentConfig.TPM), when both
\* are set: delete the TPM before the update, move it, or neither.
TpmChanges ==
    /\ pc = "tpm"
    /\ IF newConfig.TPM # NIL /\ currentConfig.TPM # NIL
       THEN \E change \in {"none", "delete", "move"} :
              CASE change = "none" ->
                     /\ NoCall
                     /\ Goto(NextPc("tpm"))
                     /\ UNCHANGED <<itemsToDeleteBeforeUpdate, currentConfig>>
                [] change = "delete" ->
                     /\ NoCall
                     /\ itemsToDeleteBeforeUpdate' = Append(itemsToDeleteBeforeUpdate, "tpmstate0")
                     /\ currentConfig' = [currentConfig EXCEPT !.TPM = NIL]
                     /\ Goto(NextPc("tpm"))
                [] change = "move" ->
                     /\ \E ok \in BOOLEAN :
                          /\ Call("MoveTpm", ok)
                          /\ IF ok THEN Goto(NextPc("tpm"))
                                   ELSE Return(FALSE, ErrorOf("MoveTpm"))
                     /\ UNCHANGED <<itemsToDeleteBeforeUpdate, currentConfig>>
       ELSE /\ NoCall
            /\ Goto(NextPc("tpm"))
            /\ UNCHANGED <<itemsToDeleteBeforeUpdate, currentConfig>>
    /\ UNCHANGED <<inputVars, currentFrom, newConfig, vmrNode, diskVars, stopped, rebootRequired,
                   validateErr, pendingSeen, otherVars>>

\* client.Put(map{"delete": itemsToDeleteBeforeUpdate}, url), when the list is
\* not empty; otherwise the whole block up to the reboot gate is skipped.
PrePutDelete ==
    /\ pc = "prePut"
    /\ IF itemsToDeleteBeforeUpdate # <<>>
       THEN \E ok \in BOOLEAN :
              /\ Call("PutDelete", ok)
              /\ IF ok THEN Goto(NextPc("prePut")) ELSE Return(FALSE, ErrorOf("PutDelete"))
       ELSE /\ NoCall
            /\ Goto(NextPc("gate"))
    /\ UNCHANGED <<inputVars, currentFrom, newConfig, currentConfig, vmrNode, diskVars,
                   itemsToDeleteBeforeUpdate, stopped, rebootRequired, validateErr,
                   pendingSeen, otherVars>>

\* rebootRequired, err = GuestHasPendingChanges(vmr, client)
PendingBefore ==
    /\ pc = "pendingBefore"
    /\ \E ok \in BOOLEAN, pending \in BOOLEAN :
        /\ Call("GuestHasPendingChanges", ok)
        /\ rebootRequired' = pending
        /\ pendingSeen' = IF ok /\ pending THEN pendingSeen \cup {"before"} ELSE pendingSeen
        /\ IF ok THEN Goto(NextPc("pendingBefore"))
                 ELSE Return(pending, ErrorOf("GuestHasPendingChanges"))
    /\ UNCHANGED <<inputVars, currentFrom, newConfig, currentConfig, vmrNode, diskVars,
                   itemsToDeleteBeforeUpdate, stopped, validateErr, otherVars>>

\* The reboot gate: if rebootRequired { if rebootIfNeeded { GuestShutdown } else
\* { return rebootRequired, UnableToUpdateWithoutReboot } }
RebootGate_noStop ==
    /\ pc = "gate"
    /\ IF rebootRequired /\ rebootIfNeeded
       THEN \E ok \in BOOLEAN :
              /\ Call("GuestShutdown", ok)
              /\ IF ok THEN /\ stopped' = TRUE
                            /\ rebootRequired' = FALSE
                            /\ Goto(NextPc("gate"))
                       ELSE /\ UNCHANGED <<stopped, rebootRequired>>
                            /\ Return(rebootRequired, ErrorOf("GuestShutdown"))
       ELSE /\ NoCall
            /\ UNCHANGED <<stopped, rebootRequired>>
            /\ Goto(NextPc("gate"))
    /\ UNCHANGED <<inputVars, currentFrom, newConfig, currentConfig, vmrNode, diskVars,
                   itemsToDeleteBeforeUpdate, validateErr, pendingSeen, otherVars>>

RebootGate ==
    /\ pc = "gate"
    /\ IF rebootRequired
       THEN IF rebootIfNeeded
            THEN \E ok \in BOOLEAN :
                   /\ Call("GuestShutdown", ok)
                   /\ IF ok THEN /\ stopped' = TRUE
                                 /\ rebootRequired' = FALSE
                                 /\ Goto(NextPc("gate"))
                            ELSE /\ UNCHANGED <<stopped, rebootRequired>>
                                 /\ Return(rebootRequired, ErrorOf("GuestShutdown"))
            ELSE /\ NoCall
                 /\ UNCHANGED <<stopped, rebootRequired>>
                 /\ Return(rebootRequired, ConfigQemu_Error_UnableToUpdateWithoutReboot)
       ELSE /\ NoCall
            /\ UNCHANGED <<stopped, rebootRequired>>
            /\ Goto(NextPc("gate"))
    /\ UNCHANGED <<inputVars, currentFrom, newConfig, currentConfig, vmrNode, diskVars,
                   itemsToDeleteBeforeUpdate, validateErr, pendingSeen, otherVars>>

\* if len(markedDisks.Move) != 0 { currentConfig, err = NewConfigQemuFromApi(vmr, client) }
Refetch_never ==
    /\ pc = "refetch"
    /\ IF FALSE
       THEN \E outcome \in {"ok", "error", "fatal"} :
              /\ Call("GetConfig", outcome = "ok")
              /\ CASE outcome = "ok" ->
                        /\ \E c \in FetchedConfigs(vmrNode) : currentConfig' = c
                        /\ currentFrom' = "refetch"
                        /\ Goto(NextPc("refetch"))
                   [] outcome = "error" ->
                        /\ Return(rebootRequired, ErrorOf("GetConfig"))
                        /\ UNCHANGED <<currentConfig, currentFrom>>
                   [] outcome = "fatal" ->
                        /\ Goto("exited")
                        /\ UNCHANGED <<currentConfig, currentFrom>>
       ELSE /\ NoCall
            /\ UNCHANGED <<currentConfig, currentFrom>>
            /\ Goto(NextPc("refetch"))
    /\ UNCHANGED <<inputVars, newConfig, vmrNode, diskVars, itemsToDeleteBeforeUpdate,
                   stopped, rebootRequired, validateErr, pendingSeen, otherVars>>

Refetch ==
    /\ pc = "refetch"
    /\ IF markedDisks.Move # 0
       THEN \E outcome \in {"ok", "error", "fatal"} :
              /\ Call("GetConfig", outcome = "ok")
              /\ CASE outcome = "ok" ->
                        /\ \E c \in FetchedConfigs(vmrNode) : currentConfig' = c
                        /\ currentFrom' = "refetch"
                        /\ Goto(NextPc("refetch"))
                   [] outcome = "error" ->
                        /\ Return(rebootRequired, ErrorOf("GetConfig"))
                        /\ UNCHANGED <<currentConfig, currentFrom>>
                   [] outcome = "fatal" ->
                        /\ Goto("exited")
                        /\ UNCHANGED <<currentConfig, currentFrom>>
       ELSE /\ NoCall
            /\ UNCHANGED <<currentConfig, currentFrom>>
            /\ Goto(NextPc("refetch"))
    /\ UNCHANGED <<inputVars, newConfig, vmrNode, diskVars, itemsToDeleteBeforeUpdate,
                   stopped, rebootRequired, validateErr, pendingSeen, otherVars>>

\* if newConfig.Node != currentConfig.Node { vmr.SetNode(currentConfig.Node);
\* client.MigrateNode(vmr, newConfig.Node, true); vmr.SetNode(newConfig.Node) }
Migrate ==
    /\ pc = "migrate"
    /\ IF newConfig.Node # currentConfig.Node
       THEN \E ok \in BOOLEAN :
              /\ Call("MigrateNode", ok)
              /\ IF ok THEN /\ vmrNode' = newConfig.Node
                            /\ Goto(NextPc("migrate"))
                       ELSE /\ vmrNode' = currentConfig.Node
                            /\ Return(rebootRequired, ErrorOf("MigrateNode"))
       ELSE /\ NoCall
            /\ UNCHANGED vmrNode
            /\ Goto(NextPc("migrate"))
    /\ UNCHANGED <<inputVars, currentFrom, newConfig, currentConfig, diskVars, itemsToDeleteBeforeUpdate,
                   stopped, rebootRequired, validateErr, pendingSeen, otherVars>>

\* rebootRequired, params, err = newConfig.mapToAPI(*currentConfig, version);
\* exitStatus, err = client.PutWithTask(params, url)
MainPut ==
    /\ pc = "mainPut"
    /\ rebootRequired' = mapToAPI(newConfig, currentConfig, NoSub).rebootRequired
    /\ \E ok \in BOOLEAN :
        /\ Call("PutWithTask", ok)
        /\ IF ok THEN Goto(NextPc("mainPut")) ELSE Return(FALSE, ErrorOf("PutWithTask"))
    /\ UNCHANGED <<inputVars, currentFrom, newConfig, currentConfig, vmrNode, diskVars,
                   itemsToDeleteBeforeUpdate, stopped, validateErr, pendingSeen, otherVars>>

\* if !rebootRequired && !stopped { rebootRequired, err = GuestHasPendingChanges(vmr, client) }
PendingAfter_dropsReport ==
    /\ pc = "pendingAfter"
    /\ IF ~rebootRequired /\ ~stopped
       THEN \E ok \in BOOLEAN, pending \in BOOLEAN :
              /\ Call("GuestHasPendingChanges", ok)
              /\ rebootRequired' = FALSE
              /\ pendingSeen' = IF ok /\ pending THEN pendingSeen \cup {"after"} ELSE pendingSeen
              /\ IF ok THEN Goto(NextPc("pendingAfter"))
                       ELSE Return(pending, ErrorOf("GuestHasPendingChanges"))
       ELSE /\ NoCall
            /\ UNCHANGED <<rebootRequired, pendingSeen>>
            /\ Goto(NextPc("pendingAfter"))
    /\ UNCHANGED <<inputVars, currentFrom, newConfig, currentConfig, vmrNode, diskVars,
                   itemsToDeleteBeforeUpdate, stopped, validateErr, otherVars>>

PendingAfter ==
    /\ pc = "pendingAfter"
    /\ IF ~rebootRequired /\ ~stopped
       THEN \E ok \in BOOLEAN, pending \in BOOLEAN :
              /\ Call("GuestHasPendingChanges", ok)
              /\ rebootRequired' = pending
              /\ pendingSeen' = IF ok /\ pending THEN pendingSeen \cup {"after"} ELSE pendingSeen
              /\ IF ok THEN Goto(NextPc("pendingAfter"))
                       ELSE Return(pending, ErrorOf("GuestHasPendingChanges"))
       ELSE /\ NoCall
            /\ UNCHANGED <<rebootRequired, pendingSeen>>
            /\ Goto(NextPc("pendingAfter"))
    /\ UNCHANGED <<inputVars, currentFrom, newConfig, currentConfig, vmrNode, diskVars,
                   itemsToDeleteBeforeUpdate, stopped, validateErr, otherVars>>

\* resizeNewDisks(vmr, client, newConfig.Disks, currentConfig.Disks), in both
\* branches: it may find no new disk to resize, resize, or fail resizing.
ResizeNewDisks ==
    /\ pc = "resizeNew"
    /\ IF ~newConfig.Disks.isNil
       THEN \E outcome \in {"nothing", "ok", "error"} :
              /\ IF outcome = "nothing" THEN NoCall ELSE Call("ResizeNewDisk", outcome = "ok")
              /\ IF outcome = "error" THEN Return(rebootRequired, ErrorOf("ResizeNewDisk"))
                                      ELSE Goto(NextPc("resizeNew"))
       ELSE /\ NoCall
            /\ Goto(NextPc("resizeNew"))
    /\ UNCHANGED <<inputVars, currentFrom, newConfig, currentConfig, vmrNode, diskVars,
                   itemsToDeleteBeforeUpdate, stopped, rebootRequired, validateErr,
                   pendingSeen, otherVars>>

\* if newConfig.Pool != nil { guestSetPool_Unsafe(...) }: a call statement,
\* what the function returns is dropped.
SetPool ==
    /\ pc = "setPool"
    /\ IF newConfig.Pool # NIL
       THEN \E ok \in BOOLEAN : Call("SetPool", ok)
       ELSE NoCall
    /\ Goto(NextPc("setPool"))
    /\ UNCHANGED <<inputVars, currentFrom, newConfig, currentConfig, vmrNode, diskVars,
                   itemsToDeleteBeforeUpdate, stopped, rebootRequired, validateErr,
                   pendingSeen, otherVars>>

\* if stopped { start or return true, nil } else if rebootRequired { reboot or
\* return rebootRequired, nil }
StartOrReboot_unableAfterPut ==
    /\ pc = "startOrReboot"
    /\ IF stopped
       THEN IF rebootIfNeeded
            THEN \E ok \in BOOLEAN :
                   /\ Call("GuestStart", ok)
                   /\ IF ok THEN /\ stopped' = FALSE
                                 /\ rebootRequired' = FALSE
                                 /\ Goto(NextPc("startOrReboot"))
                            ELSE /\ UNCHANGED <<stopped, rebootRequired>>
                                 /\ Return(rebootRequired, ErrorOf("GuestStart"))
            ELSE /\ NoCall
                 /\ UNCHANGED <<stopped, rebootRequired>>
                 /\ Return(TRUE, NoErr)
       ELSE IF rebootRequired
            THEN IF rebootIfNeeded
                 THEN \E ok \in BOOLEAN :
                        /\ Call("GuestReboot", ok)
                        /\ UNCHANGED stopped
                        /\ IF ok THEN /\ rebootRequired' = FALSE
                                      /\ Goto(NextPc("startOrReboot"))
                                 ELSE /\ UNCHANGED rebootRequired
                                      /\ Return(rebootRequired, ErrorOf("GuestReboot"))
                 ELSE /\ NoCall
                      /\ UNCHANGED <<stopped, rebootRequired>>
                      /\ Return(rebootRequired, ConfigQemu_Error_UnableToUpdateWithoutReboot)
            ELSE /\ NoCall
                 /\ UNCHANGED <<stopped, rebootRequired>>
                 /\ Goto(NextPc("startOrReboot"))
    /\ UNCHANGED <<inputVars, currentFrom, newConfig, currentConfig, vmrNode, diskVars,
                   itemsToDeleteBeforeUpdate, validateErr, pendingSeen, otherVars>>

StartOrReboot_skipsStart ==
    /\ pc = "startOrReboot"
    /\ IF stopped
       THEN IF rebootIfNeeded
            THEN /\ NoCall
                 /\ UNCHANGED <<stopped, rebootRequired>>
                 /\ Goto(NextPc("startOrReboot"))
            ELSE /\ NoCall
                 /\ UNCHANGED <<stopped, rebootRequired>>
                 /\ Return(TRUE, NoErr)
       ELSE IF rebootRequired
            THEN IF rebootIfNeeded
                 THEN \E ok \in BOOLEAN :
                        /\ Call("GuestReboot", ok)
                        /\ UNCHANGED stopped
                        /\ IF ok THEN /\ rebootRequired' = FALSE
                                      /\ Goto(NextPc("startOrReboot"))
                                 ELSE /\ UNCHANGED rebootRequired
                                      /\ Return(rebootRequired, ErrorOf("GuestReboot"))
                 ELSE /\ NoCall
                      /\ UNCHANGED <<stopped, rebootRequired>>
                      /\ Return(rebootRequired, NoErr)
            ELSE /\ NoCall
                 /\ UNCHANGED <<stopped, rebootRequired>>
                 /\ Goto(NextPc("startOrReboot"))
    /\ UNCHANGED <<inputVars, currentFrom, newConfig, currentConfig, vmrNode, diskVars,
                   itemsToDeleteBeforeUpdate, validateErr, pendingSeen, otherVars>>

StartOrReboot_keepsRebootFlag ==
    /\ pc = "startOrReboot"
    /\ IF stopped
       THEN IF rebootIfNeeded
            THEN \E ok \in BOOLEAN :
                   /\ Call("GuestStart", ok)
                   /\ IF ok THEN /\ stopped' = FALSE
                                 /\ rebootRequired' = FALSE
                                 /\ Goto(NextPc("startOrReboot"))
                            ELSE /\ UNCHANGED <<stopped, rebootRequired>>
                                 /\ Return(rebootRequired, ErrorOf("GuestStart"))
            ELSE /\ NoCall
                 /\ UNCHANGED <<stopped, rebootRequired>>
                 /\ Return(TRUE, NoErr)
       ELSE IF rebootRequired
            THEN IF rebootIfNeeded
                 THEN \E ok \in BOOLEAN :
                        /\ Call("GuestReboot", ok)
                        /\ UNCHANGED stopped
                        /\ IF ok THEN /\ UNCHANGED rebootRequired
                                      /\ Goto(NextPc("startOrReboot"))
                                 ELSE /\ UNCHANGED rebootRequired
                                      /\ Return(rebootRequired, ErrorOf("GuestReboot"))
                 ELSE /\ NoCall
                      /\ UNCHANGED <<stopped, rebootRequired>>
                      /\ Return(rebootRequired, NoErr)
            ELSE /\ NoCall
                 /\ UNCHANGED <<stopped, rebootRequired>>
                 /\ Goto(NextPc("startOrReboot"))
    /\ UNCHANGED <<inputVars, currentFrom, newConfig, currentConfig, vmrNode, diskVars,
                   itemsToDeleteBeforeUpdate, validateErr, pendingSeen, otherVars>>

StartOrReboot ==
    /\ pc = "startOrReboot"
    /\ IF stopped
       THEN IF rebootIfNeeded
            THEN \E ok \in BOOLEAN :
                   /\ Call("GuestStart", ok)
                   /\ IF ok THEN /\ stopped' = FALSE
                                 /\ rebootRequired' = FALSE
                                 /\ Goto(NextPc("startOrReboot"))
                            ELSE /\ UNCHANGED <<stopped, rebootRequired>>
                                 /\ Return(rebootRequired, ErrorOf("GuestStart"))
            ELSE /\ NoCall
                 /\ UNCHANGED <<stopped, rebootRequired>>
                 /\ Return(TRUE, NoErr)
       ELSE IF rebootRequired
            THEN IF rebootIfNeeded
                 THEN \E ok \in BOOLEAN :
                        /\ Call("GuestReboot", ok)
                        /\ UNCHANGED stopped
                        /\ IF ok THEN /\ rebootRequired' = FALSE
                                      /\ Goto(NextPc("startOrReboot"))
                                 ELSE /\ UNCHANGED rebootRequired
                                      /\ Return(rebootRequired, ErrorOf("GuestReboot"))
                 ELSE /\ NoCall
                      /\ UNCHANGED <<stopped, rebootRequired>>
                      /\ Return(rebootRequired, NoErr)
            ELSE /\ NoCall
                 /\ UNCHANGED <<stopped, rebootRequired>>
                 /\ Goto(NextPc("startOrReboot"))
    /\ UNCHANGED <<inputVars, currentFrom, newConfig, currentConfig, vmrNode, diskVars,
                   itemsToDeleteBeforeUpdate, validateErr, pendingSeen, otherVars>>

\* Create: _, params, err = newConfig.mapToAPI(ConfigQemu{}, version);
\* exitStatus, err = client.CreateQemuVm(vmr.node, params)
CreateVm ==
    /\ pc = "create"
    /\ mapToAPI(newConfig, ZeroConfig, NoSub).err = NoErr
    /\ \E ok \in BOOLEAN :
        /\ Call("CreateQemuVm", ok)
        /\ IF ok THEN Goto(NextPc("create")) ELSE Return(FALSE, ErrorOf("CreateQemuVm"))
    /\ UNCHANGED <<inputVars, currentFrom, newConfig, currentConfig, vmrNode, diskVars,
                   itemsToDeleteBeforeUpdate, stopped, rebootRequired, validateErr,
                   pendingSeen, otherVars>>

\* if newConfig.Pool != nil && *newConfig.Pool != "" { addGuests_Unsafe(...) }
AddToPool ==
    /\ pc = "addPool"
    /\ IF newConfig.Pool # NIL /\ newConfig.Pool # ""
       THEN \E ok \in BOOLEAN :
              /\ Call("AddToPool", ok)
              /\ IF ok THEN Goto(NextPc("addPool")) ELSE Return(rebootRequired, ErrorOf("AddToPool"))
       ELSE /\ NoCall
            /\ Goto(NextPc("addPool"))
    /\ UNCHANGED <<inputVars, currentFrom, newConfig, currentConfig, vmrNode, diskVars,
                   itemsToDeleteBeforeUpdate, stopped, rebootRequired, validateErr,
                   pendingSeen, otherVars>>

\* client.insertCachedPermission(<guest permission path>)
InsertPermission ==
    /\ pc = "insertPermission"
    /\ \E ok \in BOOLEAN :
        /\ Call("InsertPermission", ok)
        /\ IF ok THEN Goto(NextPc("insertPermission"))
                 ELSE Return(rebootRequired, ErrorOf("InsertPermission"))
    /\ UNCHANGED <<inputVars, currentFrom, newConfig, currentConfig, vmrNode, diskVars,
                   itemsToDeleteBeforeUpdate, stopped, rebootRequired, validateErr,
                   pendingSeen, otherVars>>

\* _, err = client.UpdateVMHA(vmr, newConfig.HaState, newConfig.HaGroup); return
ApplyHA ==
    /\ pc = "ha"
    /\ \E ok \in BOOLEAN :
        /\ Call("UpdateVMHA", ok)
        /\ Return(rebootRequired, IF ok THEN NoErr ELSE ErrorOf("UpdateVMHA"))
    /\ UNCHANGED <<inputVars, currentFrom, newConfig, currentConfig, vmrNode, diskVars,
                   itemsToDeleteBeforeUpdate, stopped, rebootRequired, validateErr,
                   pendingSeen, otherVars>>

NextReconcile ==
    \/ UpdateFetch \/ SetVmr \/ GetVersion \/ DoValidate
    \/ MarkDisks \/ MoveDisks \/ ResizeDisks \/ TpmChanges \/ PrePutDelete
    \/ PendingBefore \/ RebootGate \/ Refetch \/ Migrate \/ MainPut \/ PendingAfter
    \/ ResizeNewDisks \/ SetPool \/ StartOrReboot
    \/ CreateVm \/ AddToPool \/ InsertPermission \/ ApplyHA

----------------------------------------------------------------------------
(* Refresh-with-lock: NewConfigQemuFromApi *)

MaxAttempts == 3        \* for ii := 0; ii < 3; ii++

NoResult == [config |-> 0, err |-> "not returned", ha |-> FALSE]

InitRefresh ==
    /\ rpc = "getConfig"
    /\ ii = 0
    /\ lockPlan \in [1..MaxReads -> BOOLEAN]
    /\ reads = 0
    /\ configReads = 0
    /\ sleeps = 0
    /\ vmConfig = 0
    /\ vmInfoLock = FALSE
    /\ rOut = NoResult
    /\ decodedConfig = NilConfig
    /\ rConfig = NilConfig

IdleRefresh ==
    /\ rpc = "idle" /\ ii = 0 /\ lockPlan = [k \in 1..MaxReads |-> FALSE]
    /\ reads = 0 /\ configReads = 0 /\ sleeps = 0 /\ vmConfig = 0
    /\ vmInfoLock = FALSE /\ rOut = NoResult
    /\ decodedConfig = NilConfig /\ rConfig = NilConfig

\* The loop test ii < 3 and what follows the loop: a lock still reported
\* fails the refresh.
LoopContinues_four(i) == i < MaxAttempts + 1
LoopContinues(i) == i < MaxAttempts

\* if vmInfo["lock"] != nil { return nil, "vm locked, could not obtain config" }
StillLocked_never(lock) == FALSE
StillLocked(lock) == lock

\* vmConfig, err = client.GetVmConfig(vmr); an error ends the process (log.Fatal)
GetVmConfig ==
    /\ rpc = "getConfig"
    /\ configReads' = configReads + 1
    /\ \E ok \in BOOLEAN :
        IF ok THEN /\ vmConfig' = ii + 1
                   /\ rpc' = "getInfo"
              ELSE /\ UNCHANGED vmConfig
                   /\ rpc' = "exited"
    /\ UNCHANGED <<ii, lockPlan, reads, sleeps, vmInfoLock, rOut, decodedConfig, rConfig>>
    /\ UNCHANGED <<reconcileVars, validateVars, diffVars, codecVars, checkVars, waitVars, decodeVars>>

\* vmInfo, err = client.GetVmInfo(vmr); if vmInfo["lock"] == nil { break }
GetVmInfo ==
    /\ rpc = "getInfo"
    /\ reads < MaxReads
    /\ reads' = reads + 1
    /\ \E ok \in BOOLEAN :
        IF ok THEN /\ vmInfoLock' = lockPlan[reads']
                   /\ rpc' = IF lockPlan[reads'] THEN "sleep" ELSE "afterLoop"
                   /\ UNCHANGED rOut
              ELSE /\ UNCHANGED vmInfoLock
                   /\ rpc' = "done"
                   /\ rOut' = [config |-> 0, err |-> ErrorOf("GetVmInfo"), ha |-> FALSE]
    /\ UNCHANGED <<ii, lockPlan, configReads, sleeps, vmConfig, decodedConfig, rConfig>>
    /\ UNCHANGED <<reconcileVars, validateVars, diffVars, codecVars, checkVars, waitVars, decodeVars>>

\* else { time.Sleep(8 * time.Second) }; ii++; ii < 3 ?
SleepLocked ==
    /\ rpc = "sleep"
    /\ sleeps' = sleeps + 1
    /\ ii' = ii + 1
    /\ rpc' = IF LoopContinues(ii') THEN "getConfig" ELSE "afterLoop"
    /\ UNCHANGED <<lockPlan, reads, configReads, vmConfig, vmInfoLock, rOut, decodedConfig,
                   rConfig>>
    /\ UNCHANGED <<reconcileVars, validateVars, diffVars, codecVars, checkVars, waitVars, decodeVars>>

\* What ConfigQemu{}.mapToStruct(vmr, vmConfig) builds: Node, Pool and VmID
\* come from vmr, a scalar or a device map is set only when vmConfig has its
\* key (onboot=0 decodes to a reference to false).
DecodedConfigs ==
    {[ZeroConfig EXCEPT !.VmID = VmId, !.Node = "pve1", !.Pool = "", !.Name = "vm1",
                        !.Boot = bo, !.Bios = bi, !.Onboot = ob, !.Tablet = tb,
                        !.QemuNetworks = nw]
        : bo \in {"", "order=scsi0"}, bi \in {"", "ovmf"}, ob \in {NIL, "false"},
          tb \in {NIL, "false"}, nw \in {NilDevices, [isNil |-> FALSE, entries |-> <<"net0">>]}}

\* After the loop: fail if still locked, else decode, apply the defaults and
\* read the HA state; a failing ReadVMHA still returns the config.
FinishRefresh ==
    /\ rpc = "afterLoop"
    /\ rpc' = "done"
    /\ IF StillLocked(vmInfoLock)
       THEN /\ rOut' = [config |-> 0, err |-> Error_VmLocked, ha |-> FALSE]
            /\ UNCHANGED <<decodedConfig, rConfig>>
       ELSE \E haOk \in BOOLEAN, d \in DecodedConfigs :
              /\ rOut' = [config |-> vmConfig, err |-> NoErr, ha |-> haOk]
              /\ decodedConfig' = d
              /\ rConfig' = IF haOk
                            THEN [defaults(d) EXCEPT !.HaState = "started", !.HaGroup = "group1"]
                            ELSE defaults(d)
    /\ UNCHANGED <<ii, lockPlan, reads, configReads, sleeps, vmConfig, vmInfoLock>>
    /\ UNCHANGED <<reconcileVars, validateVars, diffVars, codecVars, checkVars, waitVars, decodeVars>>

NextRefresh == GetVmConfig \/ GetVmInfo \/ SleepLocked \/ FinishRefresh

----------------------------------------------------------------------------
(* The device codec: CreateQemu*Params, createDeviceParam, mapToStruct *)

\* A value held in a QemuDevice (map[string]interface{}), with its Go type.
\* A string whose characters matter (a MAC address) is held as its characters.
StrV(x) == <<"string", x>>
CharsV(cs) == <<"chars", cs>>
BoolV(b) == <<"bool", b>>
IntV(n) == <<"int", n>>
IsString(v) == v[1] \in {"string", "chars"}
Has(m, key) == key \in DOMAIN m
Without(m, keys) == [k \in DOMAIN m \ keys |-> m[k]]

\* strconv.Itoa and fmt's %v of an int (of a natural number).
Digits == <<"0", "1", "2", "3", "4", "5", "6", "7", "8", "9">>
RECURSIVE Itoa(_)
Itoa(n) == IF n < 10 THEN Digits[n + 1] ELSE Itoa(n \div 10) \o Digits[(n % 10) + 1]

\* Bit operations of Go on non-negative ints.
RECURSIVE BitOr(_, _)
BitOr(a, b) ==
    IF a = 0 THEN b
    ELSE IF b = 0 THEN a
    ELSE (IF a % 2 = 1 \/ b % 2 = 1 THEN 1 ELSE 0) + 2 * BitOr(a \div 2, b \div 2)
RECURSIVE BitAnd(_, _)
BitAnd(a, b) ==
    IF a = 0 \/ b = 0 THEN 0
    ELSE (IF a % 2 = 1 /\ b % 2 = 1 THEN 1 ELSE 0) + 2 * BitAnd(a \div 2, b \div 2)

\* net.HardwareAddr.String(): two lower-case hex digits per byte, joined by
\* colons; strings.ToUpper then raises the letters.
HexDigits == <<"0", "1", "2", "3", "4", "5", "6", "7", "8", "9", "a", "b", "c", "d", "e", "f">>
HexByte(b) == <<HexDigits[(b \div 16) + 1], HexDigits[(b % 16) + 1]>>
RECURSIVE HardwareAddrString(_)
HardwareAddrString(bytes) ==
    IF Len(bytes) = 0 THEN <<>>
    ELSE IF Len(bytes) = 1 THEN HexByte(bytes[1])
    ELSE HexByte(bytes[1]) \o <<":">> \o HardwareAddrString(Tail(bytes))
ToUpperChar(c) ==
    CASE c = "a" -> "A" [] c = "b" -> "B" [] c = "c" -> "C" [] c = "d" -> "D"
      [] c = "e" -> "E" [] c = "f" -> "F" [] OTHER -> c
ToUpper(cs) == [i \in DOMAIN cs |-> ToUpperChar(cs[i])]

\* case "repeatable": pairing := c.VmID<<5 | nicID; 00:18:59 and the bytes
\* (pairing>>16)&0xff, (pairing>>8)&0xff, pairing&0xff.
RepeatableMac_low23(vmId, nicId) ==
    LET pairing == BitOr(vmId * 32, nicId) % 8388608
    IN ToUpper(HardwareAddrString(<<0, 24, 89, (pairing \div 65536) % 256,
                                    (pairing \div 256) % 256, pairing % 256>>))

RepeatableMac(vmId, nicId) ==
    LET pairing == BitOr(vmId * 32, nicId)
    IN ToUpper(HardwareAddrString(<<0, 24, 89, BitAnd(pairing \div 65536, 255),
                                    BitAnd(pairing \div 256, 255), BitAnd(pairing, 255)>>))

\* case nil, "": r.Read(macaddr); macaddr[0] = (macaddr[0] | 2) & 0xfe.
\* The bytes read are any six bytes; these are the ones drawn here.
RandomBytes == {<<0, 0, 0, 0, 0, 1>>, <<255, 255, 255, 255, 255, 255>>,
                <<171, 205, 239, 1, 35, 69>>}
RandomMac(bytes) ==
    ToUpper(HardwareAddrString([bytes EXCEPT ![1] = BitAnd(BitOr(@, 2), 254)]))

Repeatable == <<"r", "e", "p", "e", "a", "t", "a", "b", "l", "e">>

\* fmt.Sprintf("%v", v) of a map value; a missing key formats as <nil>.
Format(m, key) ==
    IF ~Has(m, key) THEN "<nil>"
    ELSE CASE m[key][1] = "int" -> Itoa(m[key][2])
           [] m[key][1] = "bool" -> (IF m[key][2] THEN "true" ELSE "false")
           [] OTHER -> m[key][2]

\* createDeviceParam: one key=value per key that is not ignored and whose
\* value is true, a non-empty string or a positive number. The keys are
\* visited in the order of a Go map range, which is not fixed: the result is
\* any ordering of these pairs.
ConfValue(v) ==
    CASE v[1] = "bool" -> (IF v[2] THEN "1" ELSE "")
      [] v[1] = "int" -> (IF v[2] > 0 THEN Itoa(v[2]) ELSE "")
      [] v[1] = "string" -> v[2]
      [] OTHER -> ""
Orderings(S) ==
    {f \in [1..Cardinality(S) -> S] : \A i, j \in 1..Cardinality(S) : f[i] = f[j] => i = j}
createDeviceParam(deviceConfMap, ignoredKeys) ==
    LET kept == {k \in DOMAIN deviceConfMap \ ignoredKeys : ConfValue(deviceConfMap[k]) # ""}
    IN {[i \in DOMAIN o |-> [k |-> o[i], v |-> ConfValue(deviceConfMap[o[i]])]]
           : o \in Orderings(kept)}

\* The value written into params for one device: its parameter name, the
\* first element of a NIC (model=mac) and the comma-joined key=value pairs;
\* status "panic" when the encoder aborts (a failed type assertion), "absent"
\* when it writes no parameter.
NoHead == [model |-> "", mac |-> <<>>]
Panicked == [status |-> "panic", name |-> "", head |-> NoHead, rest |-> <<>>]
Absent == [status |-> "absent", name |-> "", head |-> NoHead, rest |-> <<>>]
Written(name, head, rest) == [status |-> "ok", name |-> name, head |-> head, rest |-> rest]
Pair(key, value) == [k |-> key, v |-> value]

\* CreateQemuNetworksParams, for one entry of c.QemuNetworks: the results it
\* can produce, each with the source map as the call leaves it (a generated
\* MAC is written back into it).
MacGenerated(nic) == ~Has(nic, "macaddr") \/ nic["macaddr"] \in {CharsV(<<>>), CharsV(Repeatable)}
MacChoices(vmId, nicID, nic) ==
    IF ~Has(nic, "macaddr") \/ nic["macaddr"] = CharsV(<<>>)
    THEN {RandomMac(b) : b \in RandomBytes}
    ELSE IF nic["macaddr"] = CharsV(Repeatable)
    THEN {RepeatableMac(vmId, nicID)}
    ELSE {nic["macaddr"][2]}
CreateQemuNetworksParams(vmId, nicID, nic) ==
    UNION {
        LET after == IF MacGenerated(nic) THEN ("macaddr" :> CharsV(mac)) @@ nic ELSE nic
        IN IF ~Has(after, "bridge") \/ ~IsString(after["bridge"])
           THEN {[out |-> Panicked, dev |-> after]}
           ELSE {[out |-> Written("net" \o Itoa(nicID),
                                  [model |-> Format(after, "model"), mac |-> mac],
                                  (IF after["bridge"][2] # "nat"
                                   THEN <<Pair("bridge", Format(after, "bridge"))>>
                                   ELSE <<>>) \o r),
                  dev |-> after]
                   : r \in createDeviceParam(after, {"id", "bridge", "macaddr", "model"})}
        : mac \in MacChoices(vmId, nicID, nic)}

\* CreateQemuUsbsParams / FormatUsbParam: nothing is ignored.
CreateQemuUsbsParams(usbID, usb) ==
    {[out |-> Written("usb" \o Itoa(usbID), NoHead, r), dev |-> usb]
        : r \in createDeviceParam(usb, {})}

\* CreateQemuPCIsParams: every key of the map, each value through %v, in the
\* order of the map range.
CreateQemuPCIsParams(pciConfID, pciConfMap) ==
    {[out |-> Written("hostpci" \o Itoa(pciConfID), NoHead,
                      [i \in DOMAIN o |-> Pair(o[i], Format(pciConfMap, o[i]))]),
      dev |-> pciConfMap]
        : o \in Orderings(DOMAIN pciConfMap)}

\* The vga block of mapToAPI and CreateQemuRngParams: written when
\* createDeviceParam yields a pair (each pair of rng0 is split at "=" and
\* joined again).
CreateQemuVgaParams(vga) ==
    {[out |-> IF r = <<>> THEN Absent ELSE Written("vga", NoHead, r), dev |-> vga]
        : r \in createDeviceParam(vga, {})}
CreateQemuRngParams(rng) ==
    {[out |-> IF r = <<>> THEN Absent ELSE Written("rng0", NoHead, r), dev |-> rng]
        : r \in createDeviceParam(rng, {})}

\* CreateQemuEfiParams: the storage pair becomes "<storage>:1" in front, the
\* other pairs follow it in the order createDeviceParam gave them.
CreateQemuEfiParams(efi) ==
    {[out |-> IF r = <<>> THEN Absent
              ELSE LET isStorage(t) == t.k = "storage"
                       notStorage(t) == t.k # "storage"
                       st == SelectSeq(r, isStorage)
                   IN Written("efidisk0", NoHead,
                              <<Pair("", IF st = <<>> THEN "" ELSE st[1].v \o ":1")>>
                                 \o SelectSeq(r, notStorage)),
      dev |-> efi]
        : r \in createDeviceParam(efi, {})}

\* CreateQemuDisksParams / FormatDiskParam for one entry of the legacy
\* c.QemuDisks (not cloned): the name needs the "type" string; the volume (or
\* storage:size, the size as DiskSizeGB renders it), cache unless none,
\* backup=0 when backups are off, then the remaining keys.
DiskIgnoredKeys == {"backup", "key", "slot", "type", "storage", "file", "size", "cache",
                    "volume", "container", "vm", "mountoptions", "storage_type"}
FormatDiskParam(disk) ==
    LET hasVolume == Has(disk, "volume") /\ disk["volume"] # StrV("")
        front == IF hasVolume
                 THEN <<Pair("", disk["volume"][2])>>
                      \o (IF Has(disk, "size") /\ disk["size"] # StrV("")
                          THEN <<Pair("size", Format(disk, "size"))>> ELSE <<>>)
                 ELSE <<Pair("", Format(disk, "storage") \o ":" \o Format(disk, "size"))>>
        cache == IF Has(disk, "cache") /\ disk["cache"] # StrV("none")
                 THEN <<Pair("cache", Format(disk, "cache"))>> ELSE <<>>
        backup == IF Has(disk, "backup") /\ disk["backup"] = BoolV(FALSE)
                  THEN <<Pair("backup", "0")>> ELSE <<>>
    IN {front \o cache \o backup \o r : r \in createDeviceParam(disk, DiskIgnoredKeys)}
CreateQemuDisksParams(diskID, disk) ==
    IF ~Has(disk, "type") \/ ~IsString(disk["type"])
    THEN {[out |-> Panicked, dev |-> disk]}
    ELSE {[out |-> Written(disk["type"][2] \o Itoa(diskID), NoHead, r), dev |-> disk]
            : r \in FormatDiskParam(disk)}

\* The encoder of each device family.
Encode(fam, vmId, id, d) ==
    CASE fam = "net" -> CreateQemuNetworksParams(vmId, id, d)
      [] fam = "usb" -> CreateQemuUsbsParams(id, d)
      [] fam = "hostpci" -> CreateQemuPCIsParams(id, d)
      [] fam = "vga" -> CreateQemuVgaParams(d)
      [] fam = "rng0" -> CreateQemuRngParams(d)
      [] fam = "efidisk0" -> CreateQemuEfiParams(d)
      [] fam = "disk" -> CreateQemuDisksParams(id, d)

\* Decoding of a netN value in mapToStruct. ParseSubConf is outside this
\* file: it splits at the separator and types the value, an integer when it
\* parses as one, a boolean when it parses as one, a string otherwise.
MaxParsedInt == 40      \* largest integer the decoder is made to recognise
BoolStrings == [true |-> TRUE, false |-> FALSE, t |-> TRUE, f |-> FALSE]
ParseSubConf(value) ==
    IF \E n \in 0..MaxParsedInt : Itoa(n) = value
    THEN IntV(CHOOSE n \in 0..MaxParsedInt : Itoa(n) = value)
    ELSE IF value \in DOMAIN BoolStrings THEN BoolV(BoolStrings[value])
    ELSE StrV(value)

\* readDeviceConfig: confMap[key] = value for each key=value of the list.
RECURSIVE readDeviceConfig(_, _)
readDeviceConfig(confMap, confList) ==
    IF confList = <<>> THEN confMap
    ELSE readDeviceConfig((Head(confList).k :> ParseSubConf(Head(confList).v)) @@ confMap,
                          Tail(confList))

\* switch nicConfMap[key] { case 1: true; case 0: false }
IntToBool(m, key) ==
    IF Has(m, key) /\ m[key] = IntV(1) THEN (key :> BoolV(TRUE)) @@ m
    ELSE IF Has(m, key) /\ m[key] = IntV(0) THEN (key :> BoolV(FALSE)) @@ m
    ELSE m

\* The QemuNetworks entry mapToStruct builds from a written netN parameter.
mapToStructNet(param) ==
    LET nicID == CHOOSE n \in 0..MaxParsedInt : "net" \o Itoa(n) = param.name
        nicConfMap == ("id" :> IntV(nicID)) @@ ("model" :> StrV(param.head.model))
                         @@ ("macaddr" :> CharsV(param.head.mac))
    IN IntToBool(IntToBool(readDeviceConfig(nicConfMap, param.rest), "firewall"), "link_down")

----------------------------------------------------------------------------
(* The codec on drawn inputs *)

EncVmIDs == {100, 101, 262144, 524388}
DeviceIDs == {0, 3, 35}
MacBytes == <<170, 187, 204, 221, 238, 255>>
UpperMac == ToUpper(HardwareAddrString(MacBytes))
LowerMac == HardwareAddrString(MacBytes)

\* A map with the given optional entries: each is <<key, set of values>>, the
\* value NIL standing for "key not in the map".
RECURSIVE Maps(_)
Maps(entries) ==
    IF entries = <<>> THEN {<<>>}
    ELSE {IF v = NIL THEN m ELSE (Head(entries)[1] :> v) @@ m
            : v \in Head(entries)[2], m \in Maps(Tail(entries))}

NetInputs ==
    Maps(<< <<"macaddr", {NIL, CharsV(<<>>), CharsV(Repeatable), CharsV(UpperMac),
                          CharsV(LowerMac)}>>,
            <<"model", {NIL, StrV(""), StrV("virtio")}>>,
            <<"bridge", {NIL, StrV("nat"), StrV("vmbr0")}>>,
            <<"firewall", {NIL, BoolV(TRUE), BoolV(FALSE)}>>,
            <<"link_down", {NIL, BoolV(FALSE)}>>,
            <<"tag", {NIL, IntV(5)}>> >>)
UsbInputs ==
    Maps(<< <<"host", {StrV("spice"), StrV("0658:0200")}>>,
            <<"usb3", {NIL, BoolV(TRUE), BoolV(FALSE)}>> >>)
PciInputs ==
    Maps(<< <<"host", {StrV("0000:01:00")}>>,
            <<"pcie", {NIL, BoolV(TRUE), BoolV(FALSE)}>>,
            <<"rombar", {NIL, BoolV(TRUE)}>> >>)
VgaInputs ==
    Maps(<< <<"type", {NIL, StrV("std")}>>, <<"memory", {NIL, IntV(32)}>> >>)
RngInputs ==
    Maps(<< <<"source", {NIL, StrV("/dev/urandom")}>>,
            <<"max_bytes", {NIL, IntV(1024)}>>,
            <<"period", {NIL, IntV(1000)}>> >>)
EfiInputs ==
    Maps(<< <<"storage", {NIL, StrV("local-lvm")}>>,
            <<"efitype", {NIL, StrV("4m")}>>,
            <<"pre-enrolled-keys", {NIL, BoolV(TRUE)}>> >>)
DiskInputs ==
    Maps(<< <<"type", {NIL, StrV("scsi")}>>,
            <<"storage", {StrV("local")}>>,
            <<"size", {StrV("10G")}>>,
            <<"volume", {NIL, StrV("local:vm-100-disk-0")}>>,
            <<"cache", {NIL, StrV("none"), StrV("writeback")}>>,
            <<"backup", {NIL, BoolV(FALSE)}>>,
            <<"discard", {NIL, StrV("on")}>> >>)

\* The caller's map carries its own key as "id".
WithId(m, id) == ("id" :> IntV(id)) @@ m
DeviceInputs(fam, id) ==
    CASE fam = "net" -> {WithId(m, id) : m \in NetInputs}
      [] fam = "usb" -> {WithId(m, id) : m \in UsbInputs}
      [] fam = "hostpci" -> {WithId(m, id) : m \in PciInputs}
      [] fam = "vga" -> VgaInputs
      [] fam = "rng0" -> RngInputs
      [] fam = "efidisk0" -> EfiInputs
      [] fam = "disk" -> DiskInputs

NotEncoded == [status |-> "none", name |-> "", head |-> NoHead, rest |-> <<>>]

InitCodec ==
    /\ family \in {"net", "usb", "hostpci", "vga", "rng0", "efidisk0", "disk"}
    /\ encVmID \in (IF family = "net" THEN EncVmIDs ELSE {100})
    /\ devID \in (IF family \in {"net", "usb", "hostpci"} THEN DeviceIDs ELSE {0})
    /\ dev \in DeviceInputs(family, devID)
    /\ devAfter = dev
    /\ out1 = NotEncoded
    /\ out2 = NotEncoded
    /\ back = <<>>
    /\ cpc = "encode"

IdleCodec ==
    /\ family = "none" /\ encVmID = 0 /\ devID = 0 /\ dev = <<>> /\ devAfter = <<>>
    /\ out1 = NotEncoded /\ out2 = NotEncoded /\ back = <<>> /\ cpc = "idle"

\* The device is encoded.
EncodeFirst ==
    /\ cpc = "encode"
    /\ \E r \in Encode(family, encVmID, devID, dev) :
        /\ out1' = r.out
        /\ devAfter' = r.dev
    /\ cpc' = "encoded"
    /\ UNCHANGED <<family, encVmID, devID, dev, out2, back>>
    /\ UNCHANGED <<reconcileVars, refreshVars, validateVars, diffVars, checkVars, waitVars, decodeVars>>

\* The same device value is encoded once more.
EncodeAgain ==
    /\ cpc = "encoded"
    /\ out1.status # "panic"
    /\ \E r \in Encode(family, encVmID, devID, devAfter) : out2' = r.out
    /\ cpc' = "again"
    /\ UNCHANGED <<family, encVmID, devID, dev, devAfter, out1, back>>
    /\ UNCHANGED <<reconcileVars, refreshVars, validateVars, diffVars, checkVars, waitVars, decodeVars>>

\* The written netN value is decoded by mapToStruct.
DecodeNet ==
    /\ cpc = "encoded"
    /\ family = "net"
    /\ out1.status = "ok"
    /\ back' = mapToStructNet(out1)
    /\ cpc' = "decoded"
    /\ UNCHANGED <<family, encVmID, devID, dev, devAfter, out1, out2>>
    /\ UNCHANGED <<reconcileVars, refreshVars, validateVars, diffVars, checkVars, waitVars, decodeVars>>

NextCodec == EncodeFirst \/ EncodeAgain \/ DecodeNet

----------------------------------------------------------------------------
(* The pure functions on drawn inputs *)

ValidateConfigs ==
    {[ZeroConfig EXCEPT !.Name = "vm1", !.CPU = c, !.Memory = m, !.TPM = t, !.Agent = a,
                        !.CloudInit = ci, !.Disks = d, !.Pool = p, !.Serials = s, !.Tags = tg]
        : c \in {NIL, "host", "bad"}, m \in {NIL, "2048", "bad"}, t \in {NIL, "v2.0", "bad"},
          a \in {NIL, "bad"}, ci \in {NIL, "bad"}, d \in {NoDisks, SomeDisks, BadDisks},
          p \in {NIL, "", "pool1", "bad"}, s \in {NIL, "bad"}, tg \in {NIL, "bad"}}

\* Configs with the iso shortcut and ide slot 2 varied.
IsoConfigs ==
    {[ZeroConfig EXCEPT !.Name = "vm1", !.CPU = "host", !.Memory = "2048", !.Iso = i, !.Disks = d]
        : i \in {NIL, "local:iso/a.iso"},
          d \in {NoDisks} \cup {DisksWithIde2(k) : k \in SUBSET SlotKinds}}

InitValidate ==
    /\ valConfig \in ValidateConfigs \cup IsoConfigs
    /\ valCurrent \in {NilConfig} \cup FetchedConfigs("pve1")
    /\ valOut = "unset"
    /\ valNorm = NilConfig

IdleValidate ==
    /\ valConfig = ZeroConfig /\ valCurrent = NilConfig /\ valOut = "unset"
    /\ valNorm = NilConfig

RunValidate ==
    /\ valOut = "unset"
    /\ valOut' = Validate(valConfig, valCurrent)
    /\ UNCHANGED <<valConfig, valCurrent, valNorm>>
    /\ UNCHANGED <<reconcileVars, refreshVars, diffVars, codecVars, checkVars, waitVars, decodeVars>>

\* setAdvanced goes on to mapToAPI only with a config Validate accepted; the
\* first thing mapToAPI does to the disk tree is the iso normalisation.
RunNormalizeIso ==
    /\ valOut = NoErr
    /\ valNorm.isNil
    /\ valNorm' = NormalizeIso(valConfig)
    /\ UNCHANGED <<valConfig, valCurrent, valOut>>
    /\ UNCHANGED <<reconcileVars, refreshVars, diffVars, codecVars, checkVars, waitVars, decodeVars>>

\* Configs for mapToAPI: a sparse one of a caller or a decoded one with the
\* defaults, with some scalars varied; setVmr has put the vmid in.
DiffBases ==
    {[ZeroConfig EXCEPT !.VmID = VmId, !.Node = "pve1"],
     defaults([ZeroConfig EXCEPT !.VmID = VmId, !.Node = "pve1", !.Name = "vm1", !.Pool = ""])}

DiffConfigs ==
    {[b EXCEPT !.Args = a, !.Bios = IF bi = "" THEN b.Bios ELSE bi, !.Description = d,
               !.Machine = m, !.Memory = me, !.Agent = ag]
        : b \in DiffBases, a \in {"", "-no-reboot"}, bi \in {"", "ovmf"},
          d \in {NIL, "", "text"}, m \in {"", "q35"}, me \in {NIL, "2048"},
          ag \in {NIL, "enabled"}}

\* What the sub-entities answer (only the memory and the agent are set in
\* DiffConfigs; the agent answers with its encoding).
DiffSubs ==
    {[NoSub EXCEPT !.Memory = r, !.Agent = "1"]
        : r \in {NoSubOut,
                 [params |-> ("memory" :> "2048"), delete |-> <<>>],
                 [params |-> EmptyMap, delete |-> <<"balloon">>]}}

NoOut == [rebootRequired |-> FALSE, params |-> EmptyMap, err |-> "not returned"]

InitDiff ==
    /\ diffConfig \in DiffConfigs
    /\ diffCurrent \in DiffConfigs
    /\ diffSub \in DiffSubs
    /\ diffOut = NoOut

IdleDiff ==
    /\ diffConfig = ZeroConfig /\ diffCurrent = ZeroConfig /\ diffSub = NoSub
    /\ diffOut = NoOut

RunMapToAPI ==
    /\ diffOut = NoOut
    /\ diffOut' = mapToAPI(diffConfig, diffCurrent, diffSub)
    /\ UNCHANGED <<diffConfig, diffCurrent, diffSub>>
    /\ UNCHANGED <<reconcileVars, refreshVars, validateVars, codecVars, checkVars, waitVars, decodeVars>>

----------------------------------------------------------------------------
(* The stand-alone validators: CreateQemuMachineParam, QemuNetworkInterfaceID.Validate *)

\* regexp.MatchString(machineModels, c.Machine) with machineModels =
\* `(pc|q35|pc-i440fx)`: the pattern has no anchors, so it matches when one of
\* the alternatives occurs anywhere in the string.
MachineModels == {<<"p", "c">>, <<"q", "3", "5">>,
                  <<"p", "c", "-", "i", "4", "4", "0", "f", "x">>}
OccursAt(sub, str, i) ==
    /\ i + Len(sub) - 1 <= Len(str)
    /\ \A j \in 1..Len(sub) : str[i + j - 1] = sub[j]
MatchString_anchored(str) == \E sub \in MachineModels : OccursAt(sub, str, 1)
MatchString(str) == \E sub \in MachineModels : \E i \in 1..Len(str) : OccursAt(sub, str, i)

Error_UnsupportedMachine == "unsupported machine type, fall back to default"

CreateQemuMachineParam(m) ==
    IF m = <<>> THEN [err |-> NoErr, params |-> EmptyMap]
    ELSE IF MatchString(m) THEN [err |-> NoErr, params |-> ("machine" :> m)]
    ELSE [err |-> Error_UnsupportedMachine, params |-> EmptyMap]

\* func (id QemuNetworkInterfaceID) Validate() error
QemuNetworkInterfaceID_Error_Invalid == "network interface ID must be in the range 0-31"
QemuNetworkInterfaceIDMaximum == 31     \* if id > 31
MaxUint8 == 255                         \* type QemuNetworkInterfaceID uint8

ValidateInterfaceID_offByOne(id) ==
    IF id > QemuNetworkInterfaceIDMaximum + 1 THEN QemuNetworkInterfaceID_Error_Invalid ELSE NoErr
ValidateInterfaceID(id) ==
    IF id > QemuNetworkInterfaceIDMaximum THEN QemuNetworkInterfaceID_Error_Invalid ELSE NoErr

\* The machine strings tried: every string of up to MaxMachineLen characters
\* over a small alphabet, and some longer names.
MaxMachineLen == 3
MachineAlphabet == {"p", "c", "q", "3", "5", "-", "x"}
Strings(n) == UNION {[1..k -> MachineAlphabet] : k \in 0..n}
LongMachines ==
    {<<"p", "c", "-", "i", "4", "4", "0", "f", "x">>,
     <<"p", "c", "-", "i", "4", "4", "0", "f", "x", "-", "8", ".", "1">>,
     <<"p", "c", "-", "q", "3", "5", "-", "8", ".", "1">>,
     <<"v", "i", "r", "t">>,
     <<"m", "i", "c", "r", "o", "v", "m">>,
     <<"n", "o", "t", "-", "q", "3", "5">>}
Machines == Strings(MaxMachineLen) \cup LongMachines

NoMachineOut == [err |-> "not returned", params |-> EmptyMap]

InitChecks ==
    /\ vkind \in {"machine", "nicid"}
    /\ machine \in (IF vkind = "machine" THEN Machines ELSE {<<>>})
    /\ ifaceId \in (IF vkind = "nicid" THEN 0..MaxUint8 ELSE {0})
    /\ machineOut = NoMachineOut
    /\ ifaceIdOut = "not returned"

IdleChecks ==
    /\ vkind = "none" /\ machine = <<>> /\ ifaceId = 0
    /\ machineOut = NoMachineOut /\ ifaceIdOut = "not returned"

RunMachineParam ==
    /\ vkind = "machine"
    /\ machineOut = NoMachineOut
    /\ machineOut' = CreateQemuMachineParam(machine)
    /\ UNCHANGED <<vkind, machine, ifaceId, ifaceIdOut>>
    /\ UNCHANGED <<reconcileVars, refreshVars, validateVars, diffVars, codecVars, waitVars,
                   decodeVars>>

RunInterfaceIDValidate ==
    /\ vkind = "nicid"
    /\ ifaceIdOut = "not returned"
    /\ ifaceIdOut' = ValidateInterfaceID(ifaceId)
    /\ UNCHANGED <<vkind, machine, machineOut, ifaceId>>
    /\ UNCHANGED <<reconcileVars, refreshVars, validateVars, diffVars, codecVars, waitVars,
                   decodeVars>>

NextChecks == RunMachineParam \/ RunInterfaceIDValidate

----------------------------------------------------------------------------
(* WaitForShutdown *)

MaxPolls == 100         \* for ii := 0; ii < 100; ii++
Error_NotShutdown == "not shutdown within wait time"

WaitContinues_oneMore(i) == i < MaxPolls + 1
WaitContinues(i) == i < MaxPolls

InitWait ==
    /\ wpc = "loop"
    /\ wii = 0
    /\ polls = 0
    /\ lastPoll = "none"
    /\ pollFailed = FALSE
    /\ wOut = "not returned"

IdleWait ==
    /\ wpc = "idle" /\ wii = 0 /\ polls = 0 /\ lastPoll = "none"
    /\ pollFailed = FALSE /\ wOut = "not returned"

\* One iteration: vmState, err := client.GetVmState(vmr); an error is logged,
\* status "stopped" returns nil, anything else sleeps 5 seconds and goes round.
PollVmState ==
    /\ wpc = "loop"
    /\ WaitContinues(wii)
    /\ \E answer \in {"error", "stopped", "running"} :
        /\ polls' = polls + 1
        /\ lastPoll' = answer
        /\ pollFailed' = (pollFailed \/ answer = "error")
        /\ IF answer = "stopped"
           THEN /\ wOut' = NoErr
                /\ wpc' = "done"
                /\ UNCHANGED wii
           ELSE /\ wii' = wii + 1
                /\ UNCHANGED <<wOut, wpc>>
    /\ UNCHANGED <<reconcileVars, refreshVars, validateVars, diffVars, codecVars, checkVars,
                   decodeVars>>

\* The loop condition fails: return fmt.Errorf("not shutdown within wait time")
GiveUpWaiting ==
    /\ wpc = "loop"
    /\ ~WaitContinues(wii)
    /\ wOut' = Error_NotShutdown
    /\ wpc' = "done"
    /\ UNCHANGED <<wii, polls, lastPoll, pollFailed>>
    /\ UNCHANGED <<reconcileVars, refreshVars, validateVars, diffVars, codecVars, checkVars,
                   decodeVars>>

NextWait == PollVmState \/ GiveUpWaiting

----------------------------------------------------------------------------
(* mapToStruct: the device keys netN, usbN, hostpciN of an API response *)

DigitChars == <<"0", "1", "2", "3", "4", "5", "6", "7", "8", "9">>
IsDigit(c) == \E d \in DOMAIN DigitChars : DigitChars[d] = c
DigitValue(c) == (CHOOSE d \in DOMAIN DigitChars : DigitChars[d] = c) - 1

\* strconv.Itoa as the characters of the decimal numeral.
RECURSIVE ItoaChars(_)
ItoaChars(n) ==
    IF n < 10 THEN <<DigitChars[n + 1]>> ELSE ItoaChars(n \div 10) \o <<DigitChars[(n % 10) + 1]>>

\* strconv.Atoi: the number a decimal numeral denotes; any other string is
\* an error and the value 0 (the callers drop the error).
RECURSIVE NumeralValue(_)
NumeralValue(cs) ==
    IF cs = <<>> THEN 0 ELSE NumeralValue(SubSeq(cs, 1, Len(cs) - 1)) * 10 + DigitValue(Last(cs))
Atoi(cs) ==
    IF cs # <<>> /\ \A i \in DOMAIN cs : IsDigit(cs[i]) THEN NumeralValue(cs) ELSE 0

\* The longest run of digits of str that starts at position i.
DigitRunEnd(str, i) ==
    CHOOSE j \in i..Len(str) :
        /\ \A k \in i..j : IsDigit(str[k])
        /\ (j = Len(str) \/ ~IsDigit(str[j + 1]))

\* rxDeviceID = `\d+`: FindStringSubmatch(str)[0] is the leftmost run of digits.
FindDeviceID(str) ==
    LET i == CHOOSE i \in DOMAIN str :
                 IsDigit(str[i]) /\ \A k \in 1..(i - 1) : ~IsDigit(str[k])
    IN SubSeq(str, i, DigitRunEnd(str, i))

\* rxNicName = `net\d+`, rxUsbName = `usb\d+`, rxPCIName = `hostpci\d+`:
\* FindStringSubmatch(str)[0] is the leftmost match, the name with its digits;
\* no match gives the empty result.
KindName == [net |-> <<"n", "e", "t">>, usb |-> <<"u", "s", "b">>,
             hostpci |-> <<"h", "o", "s", "t", "p", "c", "i">>]
MatchesAt(name, str, i) ==
    /\ OccursAt(name, str, i)
    /\ i + Len(name) <= Len(str)
    /\ IsDigit(str[i + Len(name)])
FindName(name, str) ==
    IF \E i \in DOMAIN str : MatchesAt(name, str, i)
    THEN LET i == CHOOSE i \in DOMAIN str :
                      MatchesAt(name, str, i) /\ \A k \in 1..(i - 1) : ~MatchesAt(name, str, k)
         IN SubSeq(str, i, DigitRunEnd(str, i + Len(name)))
    ELSE <<>>

\* The id mapToStruct computes for a device name it found: for netN and usbN
\* from rxDeviceID, for hostpciN from rxPCIName.
DeviceIDOf(kind, deviceName) ==
    IF kind = "hostpci" THEN Atoi(FindName(KindName[kind], deviceName))
    ELSE Atoi(FindDeviceID(deviceName))

\* The response: the key <kind>N and its value for each index N.
ResponseKey(kind, n) == KindName[kind] \o ItoaChars(n)
ResponseValue(kind, n) ==
    CASE kind = "net" -> [head |-> [model |-> "virtio", mac |-> UpperMac],
                         rest |-> <<Pair("bridge", "vmbr" \o Itoa(n))>>]
      [] kind = "usb" -> [head |-> [model |-> "host", mac |-> <<>>],
                         rest |-> <<Pair("host", "1-" \o Itoa(n)), Pair("usb3", "1")>>]
      [] kind = "hostpci" -> [head |-> [model |-> "", mac |-> <<>>],
                             rest |-> <<Pair("host", "0000:0" \o Itoa(n) \o ":00"),
                                        Pair("pcie", "1")>>]

\* The device map built for the key of index n, given the id computed.
DecodedDevice(kind, n, id) ==
    LET value == ResponseValue(kind, n)
    IN CASE kind = "net" ->
              IntToBool(IntToBool(readDeviceConfig(
                  ("id" :> IntV(id)) @@ ("model" :> StrV(value.head.model))
                     @@ ("macaddr" :> CharsV(value.head.mac)), value.rest), "firewall"), "link_down")
         [] kind = "usb" ->
              LET m == readDeviceConfig(("id" :> IntV(id)) @@ ("host" :> ParseSubConf(value.rest[1].v)),
                                        Tail(value.rest))
              IN IF Has(m, "usb3") /\ m["usb3"] = IntV(1) THEN ("usb3" :> BoolV(TRUE)) @@ m ELSE m
         [] kind = "hostpci" ->
              readDeviceConfig(("id" :> IntV(id)), value.rest)

\* The names are visited in the order the range over the response gave them,
\* and config.Qemu...[id] = map replaces an earlier entry of the same id: of
\* the names that compute one id, any one can be the entry that stays.
IdOfIndex(kind, n) == DeviceIDOf(kind, FindName(KindName[kind], ResponseKey(kind, n)))
RECURSIVE Survivors(_, _, _)
Survivors(kind, indices, ids) ==
    IF ids = {} THEN {<<>>}
    ELSE LET id == CHOOSE id \in ids : TRUE
         IN {(id :> n) @@ f : n \in {m \in indices : IdOfIndex(kind, m) = id},
                              f \in Survivors(kind, indices, ids \ {id})}
mapToStructDevices(kind, indices) ==
    LET ids == {IdOfIndex(kind, n) : n \in indices}
    IN {[id \in ids |-> DecodedDevice(kind, stays[id], id)]
           : stays \in Survivors(kind, indices, ids)}

MaxDecodeIndex == 4
DecodeIndices == 0..MaxDecodeIndex \cup {10 + MaxDecodeIndex}

InitDecode ==
    /\ dkind \in {"net", "usb", "hostpci"}
    /\ dIndices \in SUBSET DecodeIndices
    /\ dOut = <<>>
    /\ dpc = "decode"

IdleDecode == dkind = "none" /\ dIndices = {} /\ dOut = <<>> /\ dpc = "idle"

DecodeDevices ==
    /\ dpc = "decode"
    /\ dOut' \in mapToStructDevices(dkind, dIndices)
    /\ dpc' = "decoded"
    /\ UNCHANGED <<dkind, dIndices>>
    /\ UNCHANGED <<reconcileVars, refreshVars, validateVars, diffVars, codecVars, checkVars,
                   waitVars>>

NextDecode == DecodeDevices

----------------------------------------------------------------------------
(* Specifications *)

Init == InitReconcile /\ IdleRefresh /\ IdleValidate /\ IdleDiff /\ IdleCodec
        /\ IdleChecks /\ IdleWait /\ IdleDecode
Next == NextReconcile
Spec == Init /\ [][Next]_vars

InitOfRefresh == IdleReconcile /\ InitRefresh /\ IdleValidate /\ IdleDiff /\ IdleCodec
        /\ IdleChecks /\ IdleWait /\ IdleDecode
SpecRefresh == InitOfRefresh /\ [][NextRefresh]_vars

InitOfValidate == IdleReconcile /\ IdleRefresh /\ InitValidate /\ IdleDiff /\ IdleCodec
        /\ IdleChecks /\ IdleWait /\ IdleDecode
NextValidate == RunValidate \/ RunNormalizeIso
SpecValidate == InitOfValidate /\ [][NextValidate]_vars

InitOfDiff == IdleReconcile /\ IdleRefresh /\ IdleValidate /\ InitDiff /\ IdleCodec
        /\ IdleChecks /\ IdleWait /\ IdleDecode
NextDiff == RunMapToAPI
SpecDiff == InitOfDiff /\ [][NextDiff]_vars

InitOfCodec == IdleReconcile /\ IdleRefresh /\ IdleValidate /\ IdleDiff /\ InitCodec
        /\ IdleChecks /\ IdleWait /\ IdleDecode
SpecCodec == InitOfCodec /\ [][NextCodec]_vars

InitOfChecks == IdleReconcile /\ IdleRefresh /\ IdleValidate /\ IdleDiff /\ IdleCodec
        /\ InitChecks /\ IdleWait /\ IdleDecode
SpecChecks == InitOfChecks /\ [][NextChecks]_vars

\* Every call of the loop body returns (GetVmState answers or fails, the
\* sleep ends), so the loop keeps stepping.
InitOfWait == IdleReconcile /\ IdleRefresh /\ IdleValidate /\ IdleDiff /\ IdleCodec
        /\ IdleChecks /\ InitWait /\ IdleDecode
SpecWait == InitOfWait /\ [][NextWait]_vars /\ WF_vars(NextWait)

InitOfDecode == IdleReconcile /\ IdleRefresh /\ IdleValidate /\ IdleDiff /\ IdleCodec
        /\ IdleChecks /\ IdleWait /\ InitDecode
SpecDecode == InitOfDecode /\ [][NextDecode]_vars

----------------------------------------------------------------------------
(* Properties *)

Returned == pc = "done"
IsUpdate == entry # "Create"
Issued(call) == call \in Range(log)
ErrUnable == ConfigQemu_Error_UnableToUpdateWithoutReboot

\* C1: within an Update, every side-operation issued (disk move, disk resize,
\* TPM move, pre-PUT delete, migrate) has returned before the main config PUT
\* is issued, every call before the main PUT succeeded, there is one main PUT,
\* and a GuestStart or GuestReboot is issued only after the main PUT succeeded.
C1_SideOpsThenMainPutThenReboot ==
    \A j \in DOMAIN log :
        /\ log[j] \in SideOperations =>
              \A i \in 1..(j - 1) : log[i] \notin {"PutWithTask", "GuestStart", "GuestReboot"}
        /\ log[j] = "PutWithTask" =>
              \A i \in 1..(j - 1) : log[i] # "PutWithTask" /\ failedAt # i
        /\ log[j] \in {"GuestStart", "GuestReboot"} =>
              \E i \in 1..(j - 1) : log[i] = "PutWithTask" /\ failedAt # i

C1_Witness ==
    /\ Returned /\ IsUpdate /\ ret.err = NoErr
    /\ {"ResizeDisk", "PutDelete", "MigrateNode", "PutWithTask", "GuestStart"} \subseteq Range(log)

\* The desired memory size differs from the current one (2048 -> 4096), and
\* hotplug of a decoded current config ("network,disk,usb") omits memory.
MemoryChangeNeedsReboot ==
    /\ validateErr = NoErr
    /\ newConfig.Memory # NIL
    /\ newConfig.Memory # currentConfig.Memory

C4_FailureAborts ==
    (failedAt # 0 /\ pc # "exited") =>
        /\ Returned
        /\ ret.err # NoErr
        /\ Len(log) = failedAt

\* C5: Validate runs before every mutating call, and when it fails the
\* reconcile returns its error and no mutating call has been issued.
C5_ValidateBeforeMutation ==
    /\ validateErr = "unset" => Range(log) \cap MutatingCalls = {}
    /\ validateErr \notin {"unset", NoErr} =>
          /\ Returned
          /\ ret.err = validateErr
          /\ Range(log) \cap MutatingCalls = {}

C5_Witness ==
    /\ Returned /\ entry = "Update"
    /\ validateErr = SubError("cpu")
    /\ ret.err = SubError("cpu")

\* C6: on Create a nil cpu fails with CpuRequired whatever the memory is, a
\* valid cpu with a nil memory fails with MemoryRequired; on Update neither
\* error is returned and a config with nil cpu and nil memory whose other
\* fields are valid is accepted.
C6_CreateRequiresCpuThenMemory ==
    valOut # "unset" =>
        /\ (valCurrent.isNil /\ valConfig.CPU = NIL) => valOut = ConfigQemu_Error_CpuRequired
        /\ (valCurrent.isNil /\ valConfig.CPU \notin {NIL, "bad"} /\ valConfig.Memory = NIL) =>
              valOut = ConfigQemu_Error_MemoryRequired
        /\ ~valCurrent.isNil =>
              valOut \notin {ConfigQemu_Error_CpuRequired, ConfigQemu_Error_MemoryRequired}
        /\ (/\ ~valCurrent.isNil /\ valConfig.CPU = NIL /\ valConfig.Memory = NIL
            /\ valConfig.TPM # "bad" /\ valConfig.Agent = NIL /\ valConfig.CloudInit = NIL
            /\ valConfig.Disks.valid /\ valConfig.Pool # "bad" /\ valConfig.Serials = NIL
            /\ valConfig.Tags = NIL) => valOut = NoErr

C6_Witness ==
    /\ valCurrent.isNil /\ valConfig.CPU = NIL /\ valConfig.Memory = NIL
    /\ valOut = ConfigQemu_Error_CpuRequired

RefreshReturned == rpc = "done"
StatusReadFailed == rOut.err = ErrorOf("GetVmInfo")
LockedOnFirst(n) == \A k \in 1..n : lockPlan[k]

\* C7: the refresh makes at most three attempts, each one GET config followed
\* by one GET status; it returns a config only when the status read of its
\* last attempt reported no lock; a lock on all three attempts fails it with
\* the vm-locked error and no config.
C7_AtMostThreeAttempts ==
    /\ configReads <= MaxAttempts
    /\ reads <= configReads /\ configReads <= reads + 1
    /\ (RefreshReturned /\ rOut.err = NoErr) =>
          /\ rOut.config # 0
          /\ reads >= 1 /\ ~lockPlan[reads]
    /\ (RefreshReturned /\ rOut.config # 0) => rOut.err = NoErr
    /\ (RefreshReturned /\ LockedOnFirst(MaxAttempts) /\ ~StatusReadFailed) =>
          /\ rOut.err = Error_VmLocked
          /\ rOut.config = 0
          /\ reads = MaxAttempts

C7_Witness ==
    /\ RefreshReturned /\ LockedOnFirst(MaxAttempts)
    /\ rOut.err = Error_VmLocked /\ configReads = MaxAttempts

\* C8 as stated: a lock on three consecutive status reads and none on the
\* fourth lets the refresh succeed with a config.
C8_Original ==
    (RefreshReturned /\ LockedOnFirst(3) /\ ~lockPlan[4] /\ ~StatusReadFailed) =>
        /\ rOut.err = NoErr
        /\ rOut.config # 0

\* C8 as amended: a lock on the first two status reads and none on the third
\* lets the refresh succeed with the config fetched in the third attempt,
\* after two delays; a lock on three consecutive reads fails it with the
\* vm-locked error, without a fourth read, whatever a fourth read would report.
C8_UnlockedOnThirdRead ==
    (RefreshReturned /\ ~StatusReadFailed) =>
        /\ (LockedOnFirst(2) /\ ~lockPlan[3]) =>
              /\ rOut.err = NoErr
              /\ rOut.config = 3
              /\ sleeps = 2 /\ reads = 3
        /\ LockedOnFirst(3) =>
              /\ rOut.err = Error_VmLocked
              /\ rOut.config = 0
              /\ reads = 3

C8_Witness ==
    /\ RefreshReturned /\ LockedOnFirst(2) /\ ~lockPlan[3]
    /\ rOut.config = 3 /\ rOut.err = NoErr

\* C9 as stated: every reconcile that returns a nil error has issued the HA
\* write (UpdateVMHA) as its last call.
C9_HAIsFinalCall ==
    (Returned /\ ret.err = NoErr) => (log # <<>> /\ Last(log) = "UpdateVMHA")

\* The parameter each scalar field is written under.
FieldOf ==
    [vmid |-> "VmID", args |-> "Args", bios |-> "Bios", boot |-> "Boot",
     description |-> "Description", hookscript |-> "Hookscript", hotplug |-> "Hotplug",
     kvm |-> "QemuKVM", machine |-> "Machine", name |-> "Name", onboot |-> "Onboot",
     protection |-> "Protection", ostype |-> "QemuOs", scsihw |-> "Scsihw",
     startup |-> "Startup", tablet |-> "Tablet", smbios1 |-> "Smbios1"]

DiffDone == diffOut.err # "not returned"
Identical == diffConfig = diffCurrent /\ diffSub.Memory = NoSubOut

MainPutDone == \E i \in DOMAIN log : log[i] = "PutWithTask" /\ failedAt # i
Count(call) == Cardinality({i \in DOMAIN log : log[i] = call})

\* C11 as stated: an Update whose desired node differs from the node of the
\* current config, once its main PUT is done, has issued exactly one migrate,
\* before the main PUT, and vmr points at the desired node.
C11_MigrateToDesiredNode ==
    (entry = "Update" /\ MainPutDone /\ desiredNode # currentConfig.Node) =>
        /\ Count("MigrateNode") = 1
        /\ \A i, j \in DOMAIN log :
              (log[i] = "MigrateNode" /\ log[j] = "PutWithTask") => i < j
        /\ vmrNode = desiredNode

\* C12: in an Update whose main PUT was issued, if a disk was moved the
\* current config was fetched again after the last move and before the main
\* PUT, and it is that refetched config the main PUT was computed against; if
\* no disk was moved the current config is the one the reconcile began with
\* and nothing was fetched after the start.
C12_RefetchAfterMoves ==
    (IsUpdate /\ Issued("PutWithTask")) =>
        /\ Issued("MoveDisk") =>
              /\ currentFrom = "refetch"
              /\ \E g \in DOMAIN log :
                    /\ log[g] = "GetConfig"
                    /\ \A m \in DOMAIN log : log[m] = "MoveDisk" => m < g
                    /\ \A q \in DOMAIN log : log[q] = "PutWithTask" => g < q
        /\ ~Issued("MoveDisk") =>
              /\ currentFrom = (IF entry = "Update" THEN "fetch" ELSE "caller")
              /\ Count("GetConfig") = (IF entry = "Update" THEN 1 ELSE 0)

C12_Witness ==
    /\ Returned /\ entry = "Update" /\ ret.err = NoErr
    /\ Count("MoveDisk") = 2 /\ Count("GetConfig") = 2
    /\ Issued("PutWithTask")

\* A scalar the differ is said to watch has a desired value that differs from
\* the current one.
RebootFieldChanged ==
    \E f \in {"Bios", "Machine", "Smbios1", "Args"} :
        diffConfig[f] # "" /\ diffConfig[f] # diffCurrent[f]

\* C13 as stated: mapToAPI reports rebootRequired=true whenever the desired
\* bios, machine, smbios1 or args differs from the current value.
C13_RebootOnScalarChange ==
    (DiffDone /\ RebootFieldChanged) => diffOut.rebootRequired

\* The last GET config did not deliver a config.
ConfigReadFailed == vmConfig # configReads

\* C14 as stated: a refresh whose GET config failed has returned a nil config
\* and a non-nil error.
C14_ConfigReadErrorReturned ==
    ConfigReadFailed =>
        /\ RefreshReturned
        /\ rOut.config = 0
        /\ rOut.err \notin {NoErr, "not returned"}

ScalarDefaults ==
    [Boot |-> "cdn", Bios |-> "seabios", Hotplug |-> "network,disk,usb", QemuOs |-> "other",
     Scsihw |-> "lsi", Onboot |-> "true", Protection |-> "false", QemuKVM |-> "true",
     Tablet |-> "true"]

\* C15: a config returned by the refresh, whether or not the HA read
\* succeeded, has Boot, Bios, Hotplug, QemuOs, Scsihw non-empty, Onboot,
\* Protection, QemuKVM, Tablet non-nil and every device map non-nil; a field
\* that was decoded with a value keeps it, a field decoded without one holds
\* the default, and applying defaults again changes nothing.
C15_RefreshAppliesDefaults ==
    (RefreshReturned /\ rOut.err = NoErr) =>
        /\ ~rConfig.isNil
        /\ \A f \in DOMAIN ScalarDefaults :
              /\ rConfig[f] \notin {"", NIL}
              /\ rConfig[f] = (IF decodedConfig[f] \in {"", NIL}
                               THEN ScalarDefaults[f] ELSE decodedConfig[f])
        /\ \A f \in DeviceFields :
              /\ ~rConfig[f].isNil
              /\ rConfig[f].entries = decodedConfig[f].entries
        /\ rConfig.Name = decodedConfig.Name /\ rConfig.VmID = decodedConfig.VmID
        /\ defaults(rConfig) = rConfig

C15_Witness ==
    /\ RefreshReturned /\ rOut.err = NoErr /\ ~rOut.ha
    /\ decodedConfig.Onboot = "false" /\ rConfig.Onboot = "false"
    /\ decodedConfig.Boot = "" /\ rConfig.Boot = "cdn"
    /\ decodedConfig.QemuNetworks.isNil /\ ~rConfig.QemuNetworks.isNil

\* The octets a MAC address string ends with, as numbers, when it is made of
\* six upper-case hexadecimal octets separated by colons.
UpperHex == <<"0", "1", "2", "3", "4", "5", "6", "7", "8", "9", "A", "B", "C", "D", "E", "F">>
IsUpperHex(c) == \E i \in DOMAIN UpperHex : UpperHex[i] = c
IsUpperMac(cs) ==
    /\ Len(cs) = 17
    /\ \A i \in 1..17 : IF i % 3 = 0 THEN cs[i] = ":" ELSE IsUpperHex(cs[i])
HexValue(c) == (CHOOSE i \in DOMAIN UpperHex : UpperHex[i] = c) - 1
Octet(cs, n) == 16 * HexValue(cs[3 * n - 2]) + HexValue(cs[3 * n - 1])
LowOctets(cs) == 65536 * Octet(cs, 4) + 256 * Octet(cs, 5) + Octet(cs, 6)
HasOUI(cs) == Octet(cs, 1) = 0 /\ Octet(cs, 2) = 24 /\ Octet(cs, 3) = 89

NetEncoded == family = "net" /\ out1.status = "ok"
IsRepeatable == Has(dev, "macaddr") /\ dev["macaddr"] = CharsV(Repeatable)
Pairing == BitOr(encVmID * 32, devID)

\* C16 as stated: for macaddr "repeatable" the written MAC is 00:18:59
\* followed by three octets that hold the low 23 bits of vmId<<5 | nicId.
C16_Original ==
    (NetEncoded /\ IsRepeatable) =>
        /\ IsUpperMac(out1.head.mac)
        /\ HasOUI(out1.head.mac)
        /\ LowOctets(out1.head.mac) = Pairing % 8388608

\* C16 as amended: for macaddr "repeatable" the written netN value begins
\* with <model>=00:18:59: followed by three octets that hold the low 24 bits
\* of vmId<<5 | nicId, most significant first (vmId=100, nicId=3 gives
\* 00:18:59:00:0C:83); the MAC is a function of (vmId, nicId) alone and is
\* written back into the map.
C16_RepeatableMac ==
    (NetEncoded /\ IsRepeatable) =>
        /\ out1.head.model = Format(dev, "model")
        /\ IsUpperMac(out1.head.mac)
        /\ HasOUI(out1.head.mac)
        /\ LowOctets(out1.head.mac) = Pairing % 16777216
        /\ (encVmID = 100 /\ devID = 3) =>
              out1.head.mac = <<"0", "0", ":", "1", "8", ":", "5", "9", ":",
                                "0", "0", ":", "0", "C", ":", "8", "3">>
        /\ devAfter["macaddr"] = CharsV(out1.head.mac)
        /\ (cpc = "again" /\ out2.status = "ok") => out2.head.mac = out1.head.mac

C16_Witness ==
    /\ NetEncoded /\ IsRepeatable
    /\ encVmID = 262144 /\ devID = 3
    /\ LowOctets(out1.head.mac) = 8388611

\* C17 as stated: every netN value written has a non-empty model and a MAC of
\* six upper-case hexadecimal octets separated by colons in its first element.
C17_NicModelAndMac ==
    NetEncoded =>
        /\ out1.head.model # ""
        /\ IsUpperMac(out1.head.mac)

\* A legal NIC with an explicit MAC: model, MAC and bridge are set.
LegalExplicitNic ==
    /\ family = "net"
    /\ Has(dev, "macaddr") /\ dev["macaddr"] = CharsV(UpperMac)
    /\ Has(dev, "model") /\ dev["model"] = StrV("virtio")
    /\ Has(dev, "bridge")

\* C18 as stated: decoding the netN value written for a legal NIC with an
\* explicit MAC gives the NIC back.
C18_NetRoundTrip ==
    (cpc = "decoded" /\ LegalExplicitNic) => back = dev

\* C19 as stated: encoding the same device value twice (for a NIC, one with an
\* explicit MAC) writes the same parameter both times, pair order included.
C19_EncodeDeterministic ==
    (cpc = "again" /\ (family = "net" => ~MacGenerated(dev))) => out2 = out1

\* C20 as stated: the encoder of every device map returns; none aborts.
C20_EncodeTotal ==
    cpc # "encode" => out1.status # "panic"

\* C21 as stated: once mapToAPI has normalised the iso shortcut of a config
\* that passed validation, ide slot 2 holds at most one of block disk, CD-ROM
\* and cloud-init drive.
C21_IdeSlotTwoHoldsOne ==
    ~valNorm.isNil => Cardinality(valNorm.Disks.ide2) <= 1

\* The description as the parameters carry it.
DescriptionWritten == "description" \in DOMAIN diffOut.params
DescriptionDeleted ==
    "delete" \in DOMAIN diffOut.params /\ "description" \in Range(diffOut.params["delete"])

\* C22 as stated: for the optional scalar description, an absent desired
\* reference emits nothing; a present value equal to the current one emits
\* nothing; a present, different value emits a write; a present empty value
\* while current has a description emits the name in the delete list and no
\* write of the empty string.
C22_DescriptionDiff ==
    DiffDone =>
        /\ diffConfig.Description = NIL => (~DescriptionWritten /\ ~DescriptionDeleted)
        /\ (diffConfig.Description # NIL /\ diffConfig.Description = diffCurrent.Description) =>
              (~DescriptionWritten /\ ~DescriptionDeleted)
        /\ (diffConfig.Description \notin {NIL, "", diffCurrent.Description}) =>
              (DescriptionWritten /\ diffOut.params["description"] = diffConfig.Description)
        /\ (diffConfig.Description = "" /\ diffCurrent.Description \notin {NIL, ""}) =>
              (DescriptionDeleted /\ ~DescriptionWritten)

MachineDone == machineOut # NoMachineOut

\* C23 as stated: CreateQemuMachineParam accepts a non-empty machine only if
\* it is pc, q35 or pc-i440fx, optionally followed by a suffix (read in the
\* widest way: the string starts with one of the three names), and then writes
\* params["machine"]; every other non-empty string is rejected with an error
\* and nothing is written; an empty machine is accepted and writes nothing.
C23_MachineValidator ==
    MachineDone =>
        /\ machine = <<>> => machineOut = [err |-> NoErr, params |-> EmptyMap]
        /\ (machine # <<>> /\ machineOut.err = NoErr) =>
              /\ MatchString_anchored(machine)
              /\ machineOut.params = ("machine" :> machine)
        /\ (machine # <<>> /\ ~MatchString_anchored(machine)) =>
              /\ machineOut.err # NoErr
              /\ machineOut.params = EmptyMap

\* C24: QemuNetworkInterfaceID.Validate returns nil exactly for the ids 0..31
\* and the invalid-interface-id error for every id in 32..255.
C24_InterfaceIDRange ==
    ifaceIdOut # "not returned" =>
        /\ ifaceId \in 0..31 => ifaceIdOut = NoErr
        /\ ifaceId \in 32..255 => ifaceIdOut = QemuNetworkInterfaceID_Error_Invalid
        /\ ifaceIdOut = NoErr => ifaceId \in 0..31

C24_Witness ==
    ifaceId = 32 /\ ifaceIdOut = QemuNetworkInterfaceID_Error_Invalid

\* C26: WaitForShutdown makes at most 100 status polls and returns: nil at the
\* first poll that reports "stopped", the not-shutdown error after the 100th
\* poll if none did; a poll that fails counts as one iteration and does not
\* end the wait.
C26_WaitInvariant ==
    /\ polls <= 100
    /\ wOut \in {"not returned", NoErr, Error_NotShutdown}
    /\ lastPoll = "stopped" <=> wOut = NoErr
    /\ wOut = Error_NotShutdown => polls = 100
    /\ (wOut = "not returned" /\ wpc = "loop") => wii = polls
    /\ (wpc = "loop" /\ polls = 100) => ENABLED GiveUpWaiting
C26_WaitForShutdownTerminates ==
    []C26_WaitInvariant /\ <>(wpc = "done")

C26_Witness ==
    wOut = Error_NotShutdown /\ polls = 100 /\ pollFailed /\ lastPoll = "error"

\* C25 as stated: every usbN and hostpciN value written begins with the pair
\* host=<id> and holds no bookkeeping key of the device map (no id=N pair),
\* for every slot index and for maps carrying the "id" the decoder puts in.
C25_HostFirstNoBookkeeping ==
    (family \in {"usb", "hostpci"} /\ out1.status = "ok") =>
        /\ out1.rest # <<>>
        /\ out1.rest[1].k = "host"
        /\ \A i \in DOMAIN out1.rest : out1.rest[i].k # "id"

\* A call of the given name was issued and did not fail.
Succeeded(call) == \E i \in DOMAIN log : log[i] = call /\ failedAt # i

\* C27: in an Update, GuestStart is issued only after this reconcile shut the
\* VM down, GuestReboot only if it did not and a reboot is required (PVE
\* reported pending changes after the main PUT); at most one of the two is
\* issued, once; a reconcile that shut the VM down and returns a nil error
\* has started it again.
C27_StartXorReboot ==
    IsUpdate =>
        /\ \A j \in DOMAIN log : log[j] = "GuestStart" =>
              \E i \in 1..(j - 1) : log[i] = "GuestShutdown" /\ failedAt # i
        /\ Issued("GuestReboot") => (~Issued("GuestShutdown") /\ "after" \in pendingSeen)
        /\ Count("GuestStart") + Count("GuestReboot") <= 1
        /\ (Returned /\ ret.err = NoErr /\ Succeeded("GuestShutdown")) => Succeeded("GuestStart")

C27_Witness ==
    /\ Returned /\ IsUpdate /\ ret.err = NoErr
    /\ Succeeded("GuestShutdown") /\ Succeeded("GuestStart")

\* C28: in an Update that did not shut the VM down, pending changes reported
\* by PVE after the main PUT lead to a reboot being issued (rebootIfNeeded) or
\* to rebootRequired=true being returned (otherwise); the reconcile never
\* returns rebootRequired=false with the pending changes left on a running VM.
C28_PendingAfterIsHonoured ==
    (Returned /\ IsUpdate /\ "after" \in pendingSeen) =>
        /\ ~Issued("GuestShutdown")
        /\ Issued("GuestReboot") \/ ret.reboot
        /\ (rebootIfNeeded /\ ~Issued("GuestReboot")) => ret.err = ErrorOf("ResizeNewDisk")
        /\ ~rebootIfNeeded => (ret.reboot /\ ret.err \in {NoErr, ErrorOf("ResizeNewDisk")})
        /\ ~ret.reboot => Succeeded("GuestReboot")

C28_Witness ==
    /\ Returned /\ IsUpdate /\ "after" \in pendingSeen
    /\ rebootIfNeeded /\ Succeeded("GuestReboot")
    /\ ret = [reboot |-> FALSE, err |-> NoErr]

\* The calls of a Create in the order the statement gives them.
CreateRank ==
    [CreateQemuVm |-> 1, ResizeNewDisk |-> 2, AddToPool |-> 3, InsertPermission |-> 4,
     UpdateVMHA |-> 5]

\* C29: on Create the calls happen in the order create request, resize of new
\* disks, add to pool (only with a non-empty pool), insert of the guest
\* permission path, HA apply; when the create request fails none of the later
\* calls is issued.
C29_CreateOrder ==
    entry = "Create" =>
        /\ \A i, j \in DOMAIN log :
              (i < j /\ log[i] \in DOMAIN CreateRank /\ log[j] \in DOMAIN CreateRank) =>
                  CreateRank[log[i]] < CreateRank[log[j]]
        /\ \A j \in DOMAIN log : (log[j] \in DOMAIN CreateRank /\ log[j] # "CreateQemuVm") =>
              Succeeded("CreateQemuVm")
        /\ Issued("AddToPool") => newConfig.Pool \notin {NIL, ""}
        /\ (Issued("InsertPermission") /\ newConfig.Pool \notin {NIL, ""}) => Issued("AddToPool")
        /\ Issued("UpdateVMHA") => Issued("InsertPermission")
        /\ (Returned /\ ret.err = NoErr) => Succeeded("UpdateVMHA")

C29_Witness ==
    /\ Returned /\ entry = "Create" /\ ret.err = NoErr
    /\ log = <<"Version", "CreateQemuVm", "ResizeNewDisk", "AddToPool", "InsertPermission",
               "UpdateVMHA">>

\* C30: an Update called with rebootIfNeeded=true that returns a nil error
\* returns rebootRequired=false, whatever PVE reported as pending before or
\* after the main PUT.
C30_NoRebootLeftWhenAllowed ==
    (Returned /\ IsUpdate /\ rebootIfNeeded /\ ret.err = NoErr) => ~ret.reboot

C30_Witness ==
    /\ Returned /\ IsUpdate /\ rebootIfNeeded
    /\ ret = [reboot |-> FALSE, err |-> NoErr]
    /\ "before" \in pendingSeen

\* C32 as stated: when the status reports a lock on every attempt, exactly two
\* 8-second delays have been slept (none after the third, final attempt) when
\* the vm-locked error is returned.
C32_DelaysOnlyBetweenAttempts ==
    (RefreshReturned /\ rOut.err = Error_VmLocked) =>
        /\ reads = MaxAttempts
        /\ sleeps = MaxAttempts - 1

\* C33 as stated: over vmId in 1..999999999 and nicId in 0..31 the repeatable
\* MAC of a NIC is the MAC of no other (vmId, nicId) pair.
C33_RepeatableMacCollisionFree ==
    (NetEncoded /\ IsRepeatable /\ devID \in 0..31) =>
        \A v \in EncVmIDs, n \in 0..31 :
            <<v, n>> # <<encVmID, devID>> => RepeatableMac(v, n) # out1.head.mac

\* C31 as stated: decoding a response with hostpciN keys for distinct N gives
\* one PCI device entry per N, keyed by N and with "id" = N; no two entries
\* collapse onto one key.
C31_HostPciEntryPerIndex ==
    (dpc = "decoded" /\ dkind = "hostpci") =>
        /\ DOMAIN dOut = dIndices
        /\ \A n \in dIndices : dOut[n]["id"] = IntV(n)

====
